---- MODULE Spec2Model ----
(***************************************************************************)
(* SparkMiner mining core: the stratum client task (stratum.cpp) and the   *)
(* miner's job hand-over (miner.cpp).                                      *)
(*                                                                         *)
(* Time is counted in ticks of one retry sleep (10 s).  Every timestamp    *)
(* the code keeps (lastConnectAttempt, backupConnectTime, s_lastActivity,  *)
(* s_lastSubmit) is held as its age, millis() - timestamp, saturated just  *)
(* above the limit it is compared with.  An action takes the duration of   *)
(* its blocking calls (dt, in ticks) and the outcome of its millis()       *)
(* comparisons as parameters: the timed specifications compute the         *)
(* outcomes from the ages, the untimed specification Spec draws them from  *)
(* BOOLEAN (every timing).  Arithmetic on targets is exact: the rounding   *)
(* of the double divisions in divide_256bit_by_double is not represented.  *)
(* Statistics no decision reads (latencies, templates) are left out.       *)
(***************************************************************************)
EXTENDS Integers, Sequences, FiniteSets, TLC

\* ------------------------------------------------------------------ bounds
\* width of the message id counter in the model (uint32_t in the source)
IdBits == 3
\* slots of the pending ring and of the submission queue
MAX_PENDING_SUBMISSIONS == 2
\* responses counted in accepted + rejected before the server falls silent
MaxCount == 2
\* shares the workers find
MaxShares == 3

\* ------------------------------------------------------- program constants
UINT32_MAX == (2 ^ IdBits) - 1
MAX_DIFFICULTY_EXP == 29
MAX_DIFFICULTY_MANT == 65535
maxAttempts == 10
RETRY_SLEEP_MS == 10000
POOL_FAILOVER_MS == 30000
PROBE_MS == 120000
KEEPALIVE_MS == 120000
POOL_KEEPALIVE_MS == 30000
INACTIVITY_MS == 700000
TICK_MS == RETRY_SLEEP_MS
\* the longest line readBoundedLine returns (4096 in the program)
maxLen == 2
\* by how many bytes a line may exceed it
MaxOver == 2

JobIds == {"A", "B"}
\* difficulties as exact fractions <<numerator, denominator>>
Diffs == {<<1, 1>>, <<2, 1>>, <<1, 2>>, <<3, 1>>}
\* the parameter of a mining.set_difficulty: a number, or what else a line holds
DiffParams == {<<"num", d[1], d[2]>> : d \in Diffs} \cup
              {<<t, 0, 0>> : t \in {"absent", "nonnum", "zero", "neg", "nan", "inf"}}
NoParam == <<"absent", 0, 0>>
Results == {"true", "false", "array", "error"}

Min(a, b) == IF a < b THEN a ELSE b

\* ------------------------------------------------------------ target maths
\* 256-bit numbers are functions 0..31 -> 0..255, byte 0 least significant.
Bytes32 == 0 .. 31

ZeroTarget == [i \in Bytes32 |-> 0]

FullTarget == [i \in Bytes32 |-> 255]

\* byte k of the 32-bit value v
ByteOf(v, k) == (v \div (256 ^ k)) % 256

\* bits_to_target: nBits given as exponent byte and 24-bit mantissa.
bits_to_target(exponent, mantissa) ==
    IF exponent <= 3
    THEN LET m == mantissa \div (256 ^ (3 - exponent))
         IN  [i \in Bytes32 |-> IF i < 4 THEN ByteOf(m, i) ELSE 0]
    ELSE LET shift == exponent - 3
         IN  [i \in Bytes32 |->
                IF i >= shift /\ i < shift + 4 THEN ByteOf(mantissa, i - shift) ELSE 0]

\* bits_to_target: the offset past the last byte it stores, counted from
\* target[0]: memset clears 32 bytes, and the 32-bit store of the mantissa
\* goes to target + (exponent - 3)
bits_to_target_top(exponent) ==
    IF exponent <= 3 \/ exponent + 1 <= 32 THEN 32 ELSE exponent + 1

\* little-endian digits of t * k, with room for the carry (40 digits)
RECURSIVE MulDigits(_, _, _, _)
MulDigits(t, k, i, carry) ==
    IF i = 40 THEN << >>
    ELSE LET v == (IF i < 32 THEN t[i] ELSE 0) * k + carry
         IN  <<v % 256>> \o MulDigits(t, k, i + 1, v \div 256)

\* digits (most significant first) of floor(value / n), value given by its
\* little-endian digit sequence ds
RECURSIVE DivDigits(_, _, _, _)
DivDigits(ds, n, i, rem) ==
    IF i = 0 THEN << >>
    ELSE LET v == rem * 256 + ds[i]
         IN  <<v \div n>> \o DivDigits(ds, n, i - 1, v % n)

\* divide_256bit_by_double: the quotient limb by limb from the top, the
\* remainder carried down; a limb that does not fit is clamped to all ones,
\* and then so is every limb below it.
divide_256bit_by_double(target, divisor) ==
    LET ds == MulDigits(target, divisor[2], 0, 0)
        q  == DivDigits(ds, divisor[1], 40, 0)
        \* q[1] is digit 39 ... q[40] is digit 0
        overflow == \E j \in 1 .. 8 : q[j] # 0
    IN  IF overflow THEN FullTarget
        ELSE [i \in Bytes32 |-> q[40 - i]]

adjust_target_for_difficulty(bt, difficulty) ==
    divide_256bit_by_double(bt, difficulty)

MaxTarget == bits_to_target(MAX_DIFFICULTY_EXP, MAX_DIFFICULTY_MANT)

\* setPoolTarget: the pool target for pool difficulty d
setPoolTarget(d) == adjust_target_for_difficulty(MaxTarget, d)

\* check_target: the bytes are compared from byte 31 down to byte 0; the
\* first that differs decides, equal arrays are accepted
RECURSIVE check_target_from(_, _, _)
check_target_from(hash, target, i) ==
    IF i < 0 THEN TRUE
    ELSE IF hash[i] < target[i] THEN TRUE
    ELSE IF hash[i] > target[i] THEN FALSE
    ELSE check_target_from(hash, target, i - 1)

check_targetStrict(hash, target) ==
    hash # target /\ check_target_from(hash, target, 31)

check_target(hash, target) == check_target_from(hash, target, 31)

\* the nbits field of the notify that carried the job, as exponent and
\* mantissa: job A is a block of difficulty 1, job B a harder one, and the
\* job of a notify without fields has nbits "" (strtoul gives 0)
nbits(job) ==
    IF job = "A" THEN [exponent |-> 29, mantissa |-> 65535]
    ELSE IF job = "B" THEN [exponent |-> 27, mantissa |-> 262143]
    ELSE [exponent |-> 0, mantissa |-> 0]

\* ------------------------------------------------------------- hex strings
\* A uint32_t is the pair <<high 16 bits, low 16 bits>>; a string is the
\* sequence of its characters.
Pow16 == 65536

\* value >> 4 and value >> 8
Shr4(v) == <<v[1] \div 16, (v[1] % 16) * 4096 + v[2] \div 16>>

Shr8(v) == <<v[1] \div 256, (v[1] % 256) * 256 + v[2] \div 256>>

\* (value << 4) | d, the bits above 32 lost
Shl4Or(v, d) == <<((v[1] % 4096) * 16 + v[2] \div 4096) % Pow16, (v[2] % 4096) * 16 + d>>

\* the digit table of formatHex8 and the one of encodeExtraNonce
hex == <<"0", "1", "2", "3", "4", "5", "6", "7", "8", "9", "a", "b", "c", "d", "e", "f">>

tbl == <<"0", "1", "2", "3", "4", "5", "6", "7", "8", "9", "A", "B", "C", "D", "E", "F">>

\* formatHex8: for (i = 7; i >= 0; i--) { dest[i] = hex[value & 0xF]; value >>= 4; }
\* dest holds the characters i+1 .. 7 when the loop is at i
RECURSIVE formatHex8From(_, _, _)
formatHex8From(dest, value, i) ==
    IF i < 0 THEN dest
    ELSE formatHex8From(<<hex[(value[2] % 16) + 1]>> \o dest, Shr4(value), i - 1)

formatHex8LowFirst(value) ==
    LET d == formatHex8From(<< >>, value, 7) IN [i \in 1 .. 8 |-> d[9 - i]]

formatHex8(value) == formatHex8From(<< >>, value, 7)

\* encodeExtraNonce: from the end of dest backwards, two digits per byte of
\* en, low byte first
RECURSIVE encodeExtraNonce(_, _)
encodeExtraNonce(len, en) ==
    IF len = 0 THEN << >>
    ELSE encodeExtraNonce(len - 1, Shr8(en))
         \o <<tbl[((en[2] \div 16) % 16) + 1], tbl[(en[2] % 16) + 1]>>

\* miner_set_extranonce: the size the miner keeps
miner_set_extranonce(extraNonce2Size) == IF extraNonce2Size > 8 THEN 8 ELSE extraNonce2Size

\* decodeHexChar
decodeHexChar(c) ==
    IF \E i \in 1 .. 16 : hex[i] = c \/ tbl[i] = c
    THEN (CHOOSE i \in 1 .. 16 : hex[i] = c \/ tbl[i] = c) - 1
    ELSE 0

\* 32-bit values are pairs <<high half, low half>>
\* __builtin_bswap32
bswap32(v) == <<(v[2] % 256) * 256 + v[2] \div 256, (v[1] % 256) * 256 + v[1] \div 256>>

\* v + 1 in 32 bits
Inc32(v) == IF v[2] < 65535 THEN <<v[1], v[2] + 1>> ELSE <<(v[1] + 1) % 65536, 0>>

\* s_startNonce[] as miner_start_job sets it from r = esp_random()
s_startNonce(r) == [minerId \in {0, 1} |->
                      IF minerId = 0 THEN r ELSE <<(r[1] + 32768) % 65536, r[2]>>]

\* v + k in 32 bits, for 0 <= k < 2^31
Add32(v, k) ==
    LET lo == v[2] + (k % 65536)
    IN  <<(v[1] + (k \div 65536) + (lo \div 65536)) % 65536, lo % 65536>>

\* the workers yield when (nonce & 0x3FFFF) == 0: one nonce in 2^18
YIELD_EVERY == 262144

\* nonce & 0x3FFFF
YieldMask(v) == (v[1] % 4) * 65536 + v[2]

\* uint8_t coinbase[512]
COINBASE_SIZE == 512

\* hexToBytes(&out[at], in, len): one byte per two digits, written from out[at]
\* on; the index past the last byte written (at, when len is 0)
hexToBytes(at, len) == at + (len + 1) \div 2

\* createCoinbaseHash: coinbase1, extranonce1, extranonce2 and coinbase2 are
\* decoded one behind the other; the lengths are those of the hex strings,
\* size is s_extraNonce2Size.  cbLen is the length hashed, top the index
\* past the last byte of coinbase[] written.
createCoinbaseHash(cb1Len, en1Len, size, cb2Len) ==
    LET at1 == cb1Len \div 2
        at2 == at1 + en1Len \div 2
        at3 == at2 + size
        tops == {hexToBytes(0, cb1Len), hexToBytes(at1, en1Len),
                 hexToBytes(at2, size * 2), hexToBytes(at3, cb2Len)}
    IN  [cbLen |-> at3 + cb2Len \div 2,
         top   |-> CHOOSE t \in tops : \A u \in tops : u <= t]

\* -------------------------------------------------------------- the state
VARIABLES
    pc,                   \* stratum task: "loop" | "wait" | "rx"
    hs,                   \* the subscribe() call in progress
    client,               \* pool the task's socket is connected to, or "none"
    testClient,           \* the probe socket
    wifi,                 \* WiFi.status() = WL_CONNECTED
    walletSet,            \* s_primaryPool.wallet[0] # 0
    s_hasBackupPool,
    usingBackup,
    s_isConnected,
    s_reconnectRequested,
    s_currentPoolUrl,
    s_messageId,
    s_pendingResponses,   \* msgId of each ring slot, 0 = cleared
    s_pendingIndex,
    s_submitQueue,        \* job ids of the queued submissions
    s_stats,              \* accepted, rejected, shares
    s_extraNonce1,        \* session the extranonce came from
    s_miningActive,
    s_poolDifficulty,
    s_poolTarget,
    s_currentJobId,
    s_pendingBlock,       \* job whose header miner_start_job built last
    s_extraNonce2,        \* job for whose coinbase the extranonce2 was drawn
    age,                  \* attempt, backup, activity, submit: ticks since
    outIds,               \* ids of the outbound messages of the last step
    lastOutId,            \* id of the last outbound message before them
    sentLog,              \* methods sent by the current subscribe() call
    hsNotify,             \* job of a notify read by waitForResponseById of
                          \* which no job was published yet; "lost" once the
                          \* mining loop found no line waiting
    matched,              \* result of the response the last step read: in
                          \* subscribe() the one with the id waited for, in
                          \* the mining loop any; "" if it read none
    rxId,                 \* id of the response handleServerMessage handled in
                          \* the last step, -1 if it handled none
    lastDiff,             \* value of the last set_difficulty received whose
                          \* parameter was a positive finite number
    found,                \* shares the workers have found
    quiet,                \* ticks since the last server line was received
    outage,               \* ticks since the primary first refused, -1 if up
    backupTried,          \* a backup connect was made during the outage
    sinceProbe,           \* ticks on the backup since the session began or
                          \* the last probe of the primary ended, -1 off it
    startJob,             \* miner_start_job step by step: its position, its job
    core1,                \* miner_task_core1: its position
    s_core1Mining,
    s_jobMutex,           \* holder of the job mutex, or "none"
    jobId,                \* the job id miner_task_core1 copied
    hb,                   \* job of the header miner_task_core1 copied
    started,              \* job of the last miner_start_job that returned
    hashed,               \* job whose header was hashed in the last step
    rd,                   \* the socket's byte stream and the readBoundedLine
                          \* call reading it
    fx                    \* the call in progress of one of the functions
                          \* followed step by step: its arguments and state
                          \* and, once it returned, what it left

taskVars == <<pc, hs, usingBackup, s_isConnected, s_currentPoolUrl>>
netVars == <<client, testClient>>
envVars == <<wifi, walletSet, s_hasBackupPool, s_reconnectRequested>>
idVars == <<s_messageId, outIds, lastOutId, sentLog>>
ringVars == <<s_pendingResponses, s_pendingIndex, s_stats>>
jobVars == <<s_currentJobId, s_pendingBlock, s_extraNonce2>>
minerVars == <<s_extraNonce1, s_miningActive, s_poolDifficulty, s_poolTarget,
               jobVars>>
ghostVars == <<hsNotify, lastDiff, quiet, outage, backupTried, sinceProbe>>
coreVars == <<startJob, core1, s_core1Mining, s_jobMutex, jobId, hb, started, hashed>>
libVars == <<rd, fx>>
vars == <<taskVars, netVars, envVars, idVars, ringVars, s_submitQueue, found,
          minerVars, age, ghostVars, matched, rxId, coreVars, libVars>>

\* a step that reads no response
ReadsNone == matched' = "" /\ rxId' = -1

Slots == 0 .. (MAX_PENDING_SUBMISSIONS - 1)

NoHs == [ctx |-> "none", stage |-> "none", expectedId |-> 0, attempt |-> 0]

\* ages saturate one tick above the limit they are compared with
AgeCap == [attempt  |-> POOL_FAILOVER_MS \div TICK_MS + 1,
           backup   |-> PROBE_MS \div TICK_MS + 1,
           activity |-> INACTIVITY_MS \div TICK_MS + 1,
           submit   |-> KEEPALIVE_MS \div TICK_MS + 1]

\* the ages after dt more ticks; an age of -1 is a timestamp the
\* specification does not follow
Aged(a, dt) == [k \in DOMAIN a |-> IF a[k] < 0 THEN a[k] ELSE Min(a[k] + dt, AgeCap[k])]

\* millis() - timestamp > limit
ElapsedAtOnce(a, k, limit) == TRUE

Elapsed(a, k, limit) == a[k] * TICK_MS > limit

\* the clocks of the observer run with the timestamp they are compared with:
\* quiet with s_lastActivity, outage with lastConnectAttempt (to twice the
\* failover delay), sinceProbe with backupConnectTime
GhostCap == [activity |-> AgeCap.activity,
             attempt  |-> 2 * (POOL_FAILOVER_MS \div TICK_MS) + 1,
             backup   |-> AgeCap.backup]

GhostAged(g, k, dt) == IF g < 0 \/ age[k] < 0 THEN g ELSE Min(g + dt, GhostCap[k])

\* no bytes on the wire, no call of readBoundedLine
NoFeed == [wire |-> << >>, buf |-> << >>, pc |-> "idle", line |-> << >>, out |-> << >>]

\* k times the byte b
Rep(b, k) == [i \in 1 .. k |-> b]

\* What the pool may put on the wire: nothing, or a line longer than maxLen
\* (bytes "L") followed by a well-formed line (bytes "s"), "nl" ending each.
Feeds ==
    {NoFeed} \cup
    {[NoFeed EXCEPT !.wire = Rep("L", k) \o <<"nl">> \o Rep("s", j) \o <<"nl">>] :
        k \in (maxLen + 1) .. (maxLen + MaxOver), j \in 1 .. maxLen}

\* no call of a pure function
NoCall == [fn |-> "none"]

\* 32-bit values: every pair of these halves
Halves == {0, 1, 15, 16, 255, 256, 4096, 32768, 43981, 65535}

\* extranonce2 sizes a subscribe response may carry
PoolSizes == -1 .. 9

\* digests and targets: every choice of these bytes at bytes 0, 16 and 31
SparseTargets ==
    {[i \in Bytes32 |-> IF i = 0 THEN b[1] ELSE IF i = 16 THEN b[2]
                         ELSE IF i = 31 THEN b[3] ELSE 0] :
        b \in {0, 1, 255} \X {0, 1, 255} \X {0, 1, 255}}

\* values of esp_random()
Randoms == {<<0, 0>>, <<0, 1>>, <<4660, 22136>>, <<32767, 65535>>, <<32768, 0>>,
            <<43981, 61185>>, <<65535, 65535>>}

\* calls of sha256_pipelined_mine, or steps of the sequential loop, followed
MaxBursts == 4

\* hashes the assembly loop may take to the next digest that passes its check
Bursts == {1, 65536, 262143, 262144, 524288}

\* mining.set_difficulty lines followed byte by byte
MaxWrites == 1

\* hashes followed per job
MaxHashes == 20

\* lengths of the hex strings of a notify and of the session's extranonce1
Coinbase1Lens == {0, 84, 1000, 1016, 1024, 2000}
Coinbase2Lens == {0, 8, 16, 200, 1100}
ExtraNonce1Lens == {0, 8, 31}

\* the low 24 bits of nbits
Mantissas == {0, 1, 65535, 8388607, 16777215}

\* a call that has not returned yet
Call(fn, args) == [fn |-> fn, args |-> args, done |-> FALSE, ret |-> << >>]

\* the calls of the pure functions and their arguments
Calls ==
    {NoCall}
    \cup {Call("formatHex8", <<v>>) : v \in Halves \X Halves}
    \cup {Call("encodeExtraNonce", <<n, v>>) :
             n \in PoolSizes, v \in {0, 1, 43981, 65535} \X {0, 255, 43981, 65535}}
    \cup {Call("check_target", <<h, t>>) : h \in SparseTargets, t \in SparseTargets}
    \cup {Call("bits_to_target", <<e, m>>) : e \in 0 .. 255, m \in Mantissas}
    \cup {Call("miner_start_job", <<j, c1, e1, n, c2>>) :
             j \in JobIds, c1 \in Coinbase1Lens, e1 \in ExtraNonce1Lens,
             n \in {4, 8}, c2 \in Coinbase2Lens}

\* the byte stream and the pure functions are left out
Quiescent == rd = NoFeed /\ fx = NoCall

Init ==
    /\ rd \in Feeds
    /\ fx \in Calls
    /\ pc = "loop"
    /\ hs = NoHs
    /\ client = "none"
    /\ testClient = "none"
    /\ wifi \in BOOLEAN
    /\ walletSet \in BOOLEAN
    /\ s_hasBackupPool \in BOOLEAN
    /\ usingBackup = FALSE
    /\ s_isConnected = FALSE
    /\ s_reconnectRequested = FALSE
    /\ s_currentPoolUrl = ""
    /\ s_messageId = 1
    /\ s_pendingResponses = [i \in Slots |-> 0]
    /\ s_pendingIndex = 0
    /\ s_submitQueue = << >>
    /\ s_stats = [accepted |-> 0, rejected |-> 0, shares |-> 0]
    /\ s_extraNonce1 = ""
    /\ s_miningActive = FALSE
    /\ s_poolDifficulty = <<1, 1>>
    /\ s_poolTarget = ZeroTarget
    /\ s_currentJobId = ""
    /\ s_pendingBlock = ""
    /\ s_extraNonce2 = ""
    /\ age \in [{"attempt", "backup", "activity", "submit"} -> {-1, 0}]
    /\ outIds = << >>
    /\ lastOutId = 0
    /\ sentLog = << >>
    /\ hsNotify = ""
    /\ matched = ""
    /\ rxId = -1
    /\ lastDiff = <<0, 0>>
    /\ found = 0
    /\ quiet = 0
    /\ outage = -1
    /\ backupTried = FALSE
    /\ sinceProbe = -1
    /\ startJob = [pc |-> "idle", job |-> ""]
    /\ core1 = "first"
    /\ s_core1Mining = FALSE
    /\ s_jobMutex = "none"
    /\ jobId = ""
    /\ hb = ""
    /\ started = ""
    /\ hashed = ""


\* ------------------------------------------------------------ server lines
Ln(kind, id, res, job, diff) ==
    [kind |-> kind, id |-> id, res |-> res, job |-> job, diff |-> diff]

\* a read that yields no line: the 5 s timeout, a closed socket, an oversize line
EmptyLine == Ln("empty", 0, "-", "-", NoParam)

NotifyLines == {Ln("notify", 0, "-", j, NoParam) : j \in JobIds}

\* malformed notifies: one without "params" (no job at all), one whose params
\* are too few or not strings, which leaves every field of the job empty
BadNotifyLines == {Ln("notify", 0, "-", "-", NoParam), Ln("notify", 0, "-", "", NoParam)}

SetDiffLines == {Ln("set_difficulty", 0, "-", "-", d) : d \in DiffParams}

ResponseLines == {Ln("response", i, r, "-", NoParam) : i \in 0 .. UINT32_MAX, r \in Results}

\* "garbage" fails to parse, "method" is a call of an unknown method
OtherLines == {Ln("garbage", 0, "-", "-", NoParam), Ln("method", 0, "-", "-", NoParam)}

Lines == {EmptyLine} \cup NotifyLines \cup SetDiffLines \cup ResponseLines \cup OtherLines

\* s_doc["params"][0] | 1.0
ParamOr1(diff) == IF diff[1] \in {"absent", "nonnum"} THEN <<"num", 1, 1>> ELSE diff

\* !isnan(diff) && !isinf(diff) && diff > 0
ValidDiff(diff) == diff[1] = "num"

\* the double as the fraction the model keeps
AsDiff(diff) == <<diff[2], diff[3]>>

\* ------------------------------------------------------------ message ids
\* getNextId: the id returned and the counter left behind
getNextIdWraps0(m) == [id |-> m, next |-> (m + 1) % (UINT32_MAX + 1)]

getNextId(m) ==
    LET c == IF m = UINT32_MAX THEN 1 ELSE m
    IN  [id |-> c, next |-> c + 1]

\* the id of the last outbound message once this step's are sent
LastOut(ids) == IF ids = << >> THEN lastOutId ELSE ids[Len(ids)]

Sent(ids) ==
    /\ outIds' = ids
    /\ lastOutId' = LastOut(outIds)

\* ------------------------------------------------------------------ miner
miner_stopNot == UNCHANGED s_miningActive

\* miner_stop
miner_stop == s_miningActive' = FALSE

\* miner_set_difficulty: the difficulty and target it leaves
miner_set_difficulty(diff) ==
    IF ValidDiff(diff)
    THEN [difficulty |-> AsDiff(diff), target |-> setPoolTarget(AsDiff(diff))]
    ELSE [difficulty |-> s_poolDifficulty, target |-> s_poolTarget]

\* miner_start_job as the stratum task sees it: the workers are stopped, the
\* job is built under the mutex, the targets are rebuilt, mining is resumed
miner_start_job(job) ==
    /\ s_extraNonce2' = job
    /\ s_pendingBlock' = job
    /\ s_currentJobId' = job
    /\ s_poolTarget' = setPoolTarget(s_poolDifficulty)
    /\ s_miningActive' = TRUE
    /\ UNCHANGED <<s_poolDifficulty, s_extraNonce1>>


\* ------------------------------------------------------------------- time
\* dt1 ticks pass, the timestamps in keys are set to millis(), dt2 ticks pass
TimeStep(dt1, keys, dt2) ==
    age' = Aged([k \in DOMAIN age |->
                   IF k \in keys /\ age[k] >= 0 THEN 0 ELSE Aged(age, dt1)[k]], dt2)

\* the ghost clocks over the same step; got: a server line was received
Clocks(dt, got) ==
    /\ quiet' = IF got THEN 0 ELSE GhostAged(quiet, "activity", dt)
    /\ outage' = GhostAged(outage, "attempt", dt)
    /\ sinceProbe' = GhostAged(sinceProbe, "backup", dt)
    /\ UNCHANGED backupTried

\* ------------------------------------------------- stratum_task: loop top
\* subscribe() up to its first waitForResponseById, on the socket of ctx
StartSubscribe(ctx) ==
    LET g == getNextId(s_messageId)
    IN  /\ hs' = [ctx |-> ctx, stage |-> "sub", expectedId |-> g.id, attempt |-> 0]
        /\ s_messageId' = g.next
        /\ Sent(<<g.id>>)
        /\ sentLog' = <<"mining.subscribe">>
        /\ hsNotify' = ""
        /\ pc' = "wait"

\* Wi-Fi is down: drop the session if there is one, sleep 500 ms
LoopWifiDown(dt) ==
    /\ pc = "loop"
    /\ ~wifi
    /\ IF s_isConnected
       THEN /\ miner_stop
            /\ client' = "none"
            /\ s_isConnected' = FALSE
       ELSE UNCHANGED <<s_miningActive, client, s_isConnected>>
    /\ TimeStep(dt, {}, 0)
    /\ Clocks(dt, FALSE)
    /\ Sent(<< >>)
    /\ matched' = ""
    /\ rxId' = -1
    /\ UNCHANGED lastDiff
    /\ UNCHANGED <<coreVars, libVars>>
    /\ UNCHANGED <<pc, hs, usingBackup, s_currentPoolUrl, testClient, envVars,
                   s_messageId, sentLog, ringVars, s_submitQueue, found,
                   s_extraNonce1, s_poolDifficulty, s_poolTarget, jobVars,
                   hsNotify>>

\* no wallet configured: sleep 5 s
LoopNoConfig(dt) ==
    /\ pc = "loop"
    /\ wifi
    /\ ~walletSet
    /\ TimeStep(dt, {}, 0)
    /\ Clocks(dt, FALSE)
    /\ Sent(<< >>)
    /\ matched' = ""
    /\ rxId' = -1
    /\ UNCHANGED lastDiff
    /\ UNCHANGED <<coreVars, libVars>>
    /\ UNCHANGED <<taskVars, netVars, envVars, s_messageId, sentLog, ringVars,
                   s_submitQueue, found, minerVars, hsNotify>>

\* a reconnect was requested: tear the session down, sleep 100 ms
LoopReconnect(dt) ==
    /\ pc = "loop"
    /\ wifi
    /\ walletSet
    /\ s_reconnectRequested
    /\ miner_stop
    /\ client' = "none"
    /\ s_isConnected' = FALSE
    /\ s_reconnectRequested' = FALSE
    /\ TimeStep(dt, {}, 0)
    /\ Clocks(dt, FALSE)
    /\ Sent(<< >>)
    /\ matched' = ""
    /\ rxId' = -1
    /\ UNCHANGED lastDiff
    /\ UNCHANGED <<coreVars, libVars>>
    /\ UNCHANGED <<pc, hs, usingBackup, s_currentPoolUrl, testClient, wifi,
                   walletSet, s_hasBackupPool, s_messageId, sentLog, ringVars,
                   s_submitQueue, found, s_extraNonce1, s_poolDifficulty,
                   s_poolTarget, jobVars, hsNotify>>

LoopReadyAnyWallet == pc = "loop" /\ wifi /\ ~s_reconnectRequested

LoopReady == pc = "loop" /\ wifi /\ walletSet /\ ~s_reconnectRequested

\* the socket is down and the primary accepts the connection
LoopConnectOk(dt) ==
    /\ LoopReady
    /\ client = "none"
    /\ s_miningActive' = IF s_isConnected THEN FALSE ELSE s_miningActive
    /\ s_isConnected' = FALSE
    /\ usingBackup' = FALSE
    /\ client' = "primary"
    /\ StartSubscribe("primary")
    /\ TimeStep(dt, {}, 0)
    /\ quiet' = GhostAged(quiet, "activity", dt)
    /\ outage' = -1
    /\ backupTried' = FALSE
    /\ sinceProbe' = -1
    /\ matched' = ""
    /\ rxId' = -1
    /\ UNCHANGED lastDiff
    /\ UNCHANGED <<coreVars, libVars>>
    /\ UNCHANGED <<s_currentPoolUrl, testClient, envVars, ringVars, s_submitQueue,
                   found, s_extraNonce1, s_poolDifficulty, s_poolTarget,
                   jobVars>>

\* the socket is down and the primary refuses (after dt); failoverDue is
\* millis() - lastConnectAttempt > POOL_FAILOVER_MS, backupOk the outcome of
\* the connect to the backup, slp the ticks of the retry sleep
LoopConnectFail(dt, failoverDue, backupOk, slp) ==
    /\ LoopReady
    /\ client = "none"
    /\ s_miningActive' = IF s_isConnected THEN FALSE ELSE s_miningActive
    /\ s_isConnected' = FALSE
    /\ usingBackup' = FALSE
    /\ IF s_hasBackupPool /\ failoverDue /\ backupOk
       THEN /\ client' = "backup"
            /\ StartSubscribe("backup")
            /\ TimeStep(dt, {}, 0)
            /\ quiet' = GhostAged(quiet, "activity", dt)
            /\ outage' = IF outage < 0 THEN 0 ELSE GhostAged(outage, "attempt", dt)
       ELSE /\ TimeStep(dt, {"attempt"}, slp)
            /\ quiet' = GhostAged(quiet, "activity", dt + slp)
            /\ outage' = IF outage < 0 THEN slp ELSE GhostAged(outage, "attempt", dt + slp)
            /\ Sent(<< >>)
            /\ UNCHANGED <<pc, hs, client, s_messageId, sentLog, hsNotify>>
    /\ backupTried' = (backupTried \/ (s_hasBackupPool /\ failoverDue))
    /\ sinceProbe' = -1
    /\ matched' = ""
    /\ rxId' = -1
    /\ UNCHANGED lastDiff
    /\ UNCHANGED <<coreVars, libVars>>
    /\ UNCHANGED <<s_currentPoolUrl, testClient, envVars, ringVars, s_submitQueue,
                   found, s_extraNonce1, s_poolDifficulty, s_poolTarget,
                   jobVars>>

\* the socket is up: on the backup, probe the primary every PROBE_MS on a
\* second socket; probeDue is millis() - backupConnectTime > 120000
LoopConnected(dt, probeDue, probeOk) ==
    /\ LoopReady
    /\ client # "none"
    /\ IF usingBackup /\ probeDue
       THEN IF probeOk
            THEN /\ testClient' = "primary"
                 /\ StartSubscribe("probe")
                 /\ TimeStep(dt, {}, 0)
                 /\ outage' = -1
                 /\ backupTried' = FALSE
                 /\ sinceProbe' = GhostAged(sinceProbe, "backup", dt)
            ELSE /\ TimeStep(dt, {"backup"}, 0)
                 /\ pc' = "rx"
                 /\ sinceProbe' = 0
                 /\ Sent(<< >>)
                 /\ outage' = IF outage < 0 THEN 0 ELSE GhostAged(outage, "attempt", dt)
                 /\ UNCHANGED <<hs, testClient, s_messageId, sentLog, backupTried,
                                hsNotify>>
       ELSE /\ pc' = "rx"
            /\ Sent(<< >>)
            /\ outage' = outage
            /\ UNCHANGED <<hs, testClient, s_messageId, sentLog, age, backupTried,
                           sinceProbe, hsNotify>>
    /\ quiet' = GhostAged(quiet, "activity", IF usingBackup /\ probeDue THEN dt ELSE 0)
    /\ matched' = ""
    /\ rxId' = -1
    /\ UNCHANGED lastDiff
    /\ UNCHANGED <<coreVars, libVars>>
    /\ UNCHANGED <<usingBackup, s_isConnected, s_currentPoolUrl, client, envVars,
                   ringVars, s_submitQueue, found, minerVars>>


\* ------------------------------------------- subscribe / waitForResponseById
\* the socket subscribe() was called on
HsSock == IF hs.ctx = "probe" THEN testClient ELSE client

\* What one more line read by waitForResponseById leads to: "fail" (subscribe
\* returns false), "more" (read on), "auth" (the subscribe response was
\* accepted: go on to suggest_difficulty and authorize), "ok" (returns true).
\* the wait without its cap on the number of lines
HsOutcomeUncapped(line) ==
    IF line.kind = "empty" THEN "fail"
    ELSE IF line.kind = "response" /\ line.id = hs.expectedId
    THEN IF hs.stage = "sub"
         THEN (IF line.res = "array" THEN "auth" ELSE "fail")
         ELSE (IF line.res = "true" THEN "ok" ELSE "fail")
    ELSE "more"

HsOutcomeAnyResult(line) ==
    IF line.kind = "empty" THEN "fail"
    ELSE IF line.kind = "response" /\ line.id = hs.expectedId
    THEN IF hs.stage = "sub" THEN "auth" ELSE "ok"
    ELSE IF hs.attempt + 1 = maxAttempts THEN "fail" ELSE "more"

HsOutcome(line) ==
    IF line.kind = "empty" THEN "fail"
    ELSE IF line.kind = "response" /\ line.id = hs.expectedId
    THEN IF hs.stage = "sub"
         THEN (IF line.res = "array" THEN "auth" ELSE "fail")
         ELSE (IF line.res = "true" THEN "ok" ELSE "fail")
    ELSE IF hs.attempt + 1 = maxAttempts THEN "fail" ELSE "more"

\* the url copied into s_currentPoolUrl once subscribe() succeeded for ctx
PoolUrlAlwaysPrimary(ctx) == "primary"

PoolUrl(ctx) == IF ctx = "backup" THEN "backup" ELSE "primary"

\* One line read by waitForResponseById and what subscribe() and the task do
\* once it returns.  alive: the socket is still connected when authorize is
\* sent; slp: ticks of the retry sleep.
HsRead(line, dt, alive, slp) ==
    LET out0 == HsOutcome(line)
        out  == IF out0 = "auth" /\ ~alive THEN "fail" ELSE out0
        sd   == IF line.kind = "set_difficulty"
                THEN miner_set_difficulty(ParamOr1(line.diff))
                ELSE [difficulty |-> s_poolDifficulty, target |-> s_poolTarget]
        g1   == getNextId(s_messageId)
        g2   == getNextId(g1.next)
        probe == hs.ctx = "probe"
    IN
    /\ pc = "wait"
    /\ HsSock = "none" => line = EmptyLine
    /\ CASE out = "more" ->
              /\ hs' = [hs EXCEPT !.attempt = hs.attempt + 1]
              /\ TimeStep(dt, {}, 0)
              /\ sinceProbe' = GhostAged(sinceProbe, "backup", dt)
              /\ UNCHANGED <<pc, client, testClient, usingBackup, s_isConnected,
                             s_currentPoolUrl, s_miningActive>>
         [] out = "auth" ->
              /\ hs' = [hs EXCEPT !.stage = "auth", !.expectedId = g2.id, !.attempt = 0]
              /\ TimeStep(dt, {}, 0)
              /\ sinceProbe' = GhostAged(sinceProbe, "backup", dt)
              /\ UNCHANGED <<pc, client, testClient, usingBackup, s_isConnected,
                             s_currentPoolUrl, s_miningActive>>
         [] out = "fail" /\ probe ->
              \* testClient.stop(); backupConnectTime = millis(); go on to the lines
              /\ hs' = NoHs
              /\ pc' = "rx"
              /\ testClient' = "none"
              /\ sinceProbe' = 0
              /\ TimeStep(dt, {"backup"}, 0)
              /\ UNCHANGED <<client, usingBackup, s_isConnected, s_currentPoolUrl,
                             s_miningActive>>
         [] out = "fail" /\ ~probe ->
              \* client.stop(); lastConnectAttempt = millis(); sleep; continue
              /\ hs' = NoHs
              /\ pc' = "loop"
              /\ client' = "none"
              /\ TimeStep(dt, {"attempt"}, slp)
              /\ sinceProbe' = -1
              /\ UNCHANGED <<testClient, usingBackup, s_isConnected, s_currentPoolUrl,
                             s_miningActive>>
         [] out = "ok" /\ hs.ctx = "primary" ->
              /\ hs' = NoHs
              /\ pc' = "rx"
              /\ s_isConnected' = TRUE
              /\ s_currentPoolUrl' = PoolUrl(hs.ctx)
              /\ TimeStep(dt, {"activity", "attempt"}, 0)
              /\ sinceProbe' = -1
              /\ UNCHANGED <<client, testClient, usingBackup, s_miningActive>>
         [] out = "ok" /\ hs.ctx = "backup" ->
              /\ hs' = NoHs
              /\ pc' = "rx"
              /\ s_isConnected' = TRUE
              /\ usingBackup' = TRUE
              /\ s_currentPoolUrl' = PoolUrl(hs.ctx)
              /\ sinceProbe' = 0
              /\ TimeStep(dt, {"activity", "attempt", "backup"}, 0)
              /\ UNCHANGED <<client, testClient, s_miningActive>>
         [] out = "ok" /\ probe ->
              \* miner_stop(); client.stop(); swap; testClient.stop(); continue
              /\ hs' = NoHs
              /\ pc' = "loop"
              /\ miner_stop
              /\ client' = testClient
              /\ testClient' = "none"
              /\ usingBackup' = FALSE
              /\ s_currentPoolUrl' = PoolUrl(hs.ctx)
              /\ sinceProbe' = -1
              /\ TimeStep(dt, {}, 0)
              /\ UNCHANGED s_isConnected
    /\ s_poolDifficulty' = sd.difficulty
    /\ s_poolTarget' = sd.target
    /\ hsNotify' = IF out = "fail" THEN ""
                   ELSE IF line.kind = "notify" THEN line.job ELSE hsNotify
    /\ matched' = IF line.kind = "response" /\ line.id = hs.expectedId THEN line.res ELSE ""
    /\ rxId' = -1
    /\ lastDiff' = IF line.kind = "set_difficulty" /\ ValidDiff(line.diff)
                   THEN AsDiff(line.diff) ELSE lastDiff
    /\ s_extraNonce1' = IF out0 = "auth" THEN HsSock ELSE s_extraNonce1
    /\ s_messageId' = IF out0 = "auth" THEN g2.next ELSE s_messageId
    /\ Sent(IF out = "auth" THEN <<g1.id, g2.id>> ELSE << >>)
    /\ sentLog' = IF out = "auth"
                  THEN sentLog \o <<"mining.suggest_difficulty", "mining.authorize">>
                  ELSE sentLog
    /\ quiet' = IF line.kind # "empty" THEN 0
                ELSE GhostAged(quiet, "activity", dt + (IF out = "fail" /\ ~probe THEN slp ELSE 0))
    /\ outage' = GhostAged(outage, "attempt", dt + (IF out = "fail" /\ ~probe THEN slp ELSE 0))
    /\ UNCHANGED <<coreVars, libVars>>
    /\ UNCHANGED <<envVars, ringVars, s_submitQueue, found, jobVars, backupTried>>


\* ------------------------------------------------------ handleServerMessage
\* the slots whose msgId equals id
Matching(ring, id) == {i \in Slots : ring[i] = id}

\* the first of them, as the loop over the ring finds it
FirstMatch(ring, id) == CHOOSE i \in Matching(ring, id) : \A j \in Matching(ring, id) : i <= j

\* the ring and the counters after a line carrying "id" and "result"
HandleResponseKeepsSlot(ring, stats, line) ==
    IF Matching(ring, line.id) = {}
    THEN [ring |-> ring, stats |-> stats]
    ELSE [ring  |-> ring,
          stats |-> IF line.res = "true"
                    THEN [stats EXCEPT !.accepted = @ + 1]
                    ELSE [stats EXCEPT !.rejected = @ + 1]]

HandleResponse(ring, stats, line) ==
    IF Matching(ring, line.id) = {}
    THEN [ring |-> ring, stats |-> stats]
    ELSE [ring  |-> [ring EXCEPT ![FirstMatch(ring, line.id)] = 0],
          stats |-> IF line.res = "true"
                    THEN [stats EXCEPT !.accepted = @ + 1]
                    ELSE [stats EXCEPT !.rejected = @ + 1]]

\* parseSetDifficulty: nothing without "params", else as miner_set_difficulty
parseSetDifficulty(diff) ==
    IF diff[1] = "absent"
    THEN [difficulty |-> s_poolDifficulty, target |-> s_poolTarget]
    ELSE miner_set_difficulty(ParamOr1(diff))

\* one line handled by handleServerMessage in the mining loop; parseMiningNotify
\* returns at once when the line has no "params", and starts the job otherwise
RxLine(line, dt) ==
    LET r == HandleResponse(s_pendingResponses, s_stats, line)
        sd == parseSetDifficulty(line.diff)
    IN
    /\ pc = "rx"
    /\ client # "none"
    /\ IF line.kind = "response"
       THEN /\ s_pendingResponses' = r.ring
            /\ s_stats' = r.stats
       ELSE UNCHANGED <<s_pendingResponses, s_stats>>
    /\ IF line.kind = "notify" /\ line.job # "-"
       THEN /\ miner_start_job(line.job)
            /\ TimeStep(dt, {"activity"}, 0)
            /\ hsNotify' = ""
       ELSE /\ TimeStep(dt, {}, 0)
            /\ s_poolDifficulty' =
                 IF line.kind = "set_difficulty" THEN sd.difficulty ELSE s_poolDifficulty
            /\ s_poolTarget' =
                 IF line.kind = "set_difficulty" THEN sd.target ELSE s_poolTarget
            /\ UNCHANGED <<jobVars, s_miningActive, s_extraNonce1, hsNotify>>
    /\ Clocks(dt, line.kind # "empty")
    /\ Sent(<< >>)
    /\ matched' = IF line.kind = "response" THEN line.res ELSE ""
    /\ rxId' = IF line.kind = "response" THEN line.id ELSE -1
    /\ lastDiff' = IF line.kind = "set_difficulty" /\ ValidDiff(line.diff)
                   THEN AsDiff(line.diff) ELSE lastDiff
    /\ UNCHANGED <<coreVars, libVars>>
    /\ UNCHANGED <<taskVars, netVars, envVars, s_messageId, sentLog, s_pendingIndex,
                   s_submitQueue, found>>

\* ------------------------------------------------------------ readBoundedLine
\* all the state but the byte stream and the pure functions
progVars == <<taskVars, netVars, envVars, idVars, ringVars, s_submitQueue, found,
              minerVars, age, ghostVars, matched, rxId, coreVars>>

\* the next k bytes of the wire reach the socket
Arrive(k) ==
    /\ k \in 1 .. Len(rd.wire)
    /\ rd' = [rd EXCEPT !.wire = SubSeq(@, k + 1, Len(@)),
                        !.buf = @ \o SubSeq(rd.wire, 1, k)]
    /\ UNCHANGED <<progVars, fx>>

\* handleServerMessage calls readBoundedLine: client.available() > 0
ReadCall ==
    /\ rd.pc = "idle"
    /\ rd.buf # << >>
    /\ rd' = [rd EXCEPT !.pc = "read", !.line = << >>]
    /\ UNCHANGED <<progVars, fx>>

\* the state of the call after char c = client.read() in the outer loop
readBoundedLine(r, c) ==
    IF c = "nl"
    THEN [r EXCEPT !.pc = "idle", !.out = Append(@, r.line), !.line = << >>]
    ELSE IF Len(r.line) < maxLen
         THEN [r EXCEPT !.line = Append(@, c)]
         ELSE [r EXCEPT !.pc = "drain"]

\* one pass of the outer loop with a byte available
ReadByte ==
    /\ rd.pc = "read"
    /\ rd.buf # << >>
    /\ rd' = readBoundedLine([rd EXCEPT !.buf = Tail(@)], Head(rd.buf))
    /\ UNCHANGED <<progVars, fx>>

\* while (client.available()): one byte is read and dropped; a newline ends
\* the loop and "" is returned
DrainByte ==
    /\ rd.pc = "drain"
    /\ rd.buf # << >>
    /\ rd' = IF Head(rd.buf) = "nl"
             THEN [rd EXCEPT !.buf = Tail(@), !.pc = "idle", !.out = Append(@, << >>),
                             !.line = << >>]
             ELSE [rd EXCEPT !.buf = Tail(@)]
    /\ UNCHANGED <<progVars, fx>>

\* client.available() is 0: the loop ends, "" is returned
DrainEnd ==
    /\ rd.pc = "drain"
    /\ rd.buf = << >>
    /\ rd' = [rd EXCEPT !.pc = "idle", !.out = Append(@, << >>), !.line = << >>]
    /\ UNCHANGED <<progVars, fx>>

\* ----------------------------------------------------------- pure functions
\* the call in fx returns ret
Returns(ret) ==
    /\ ~fx.done
    /\ fx' = [fx EXCEPT !.done = TRUE, !.ret = ret]
    /\ UNCHANGED <<progVars, rd>>

\* submitShare formats entry->timestamp and entry->nonce
CallFormatHex8 ==
    /\ fx.fn = "formatHex8"
    /\ Returns(formatHex8(fx.args[1]))

\* createCoinbaseHash and hashCheck encode s_extraNonce2 with the size that
\* miner_set_extranonce kept
CallEncodeExtraNonce ==
    /\ fx.fn = "encodeExtraNonce"
    /\ miner_set_extranonce(fx.args[1]) >= 0
    /\ Returns(encodeExtraNonce(miner_set_extranonce(fx.args[1]), fx.args[2]))

\* the same with a negative size: (size_t)len is huge, dest points far outside
\* the buffer and the loop writes 2^32 bytes downwards: anything may be left
CallEncodeExtraNonceWild ==
    /\ fx.fn = "encodeExtraNonce"
    /\ miner_set_extranonce(fx.args[1]) < 0
    /\ \E garbage \in {<< >>, <<"0", "0">>, encodeExtraNonce(4, fx.args[2])} :
          Returns(garbage)

\* hashCheck compares a digest with a target
CallCheckTarget ==
    /\ fx.fn = "check_target"
    /\ Returns(check_target(fx.args[1], fx.args[2]))

\* miner_start_job sets the block target from the nbits of the notify.  A
\* store past target[31] is undefined behaviour: what lies behind the array
\* is overwritten, which shows (smashed) or does not.
CallBitsToTarget(smashed) ==
    /\ fx.fn = "bits_to_target"
    /\ smashed => bits_to_target_top(fx.args[1]) > 32
    /\ Returns([target  |-> bits_to_target(fx.args[1], fx.args[2]),
                top     |-> bits_to_target_top(fx.args[1]),
                smashed |-> smashed])

\* miner_start_job with the coinbase followed by its size: createCoinbaseHash
\* has no return value and miner_start_job goes on to publish the job.  A
\* write past coinbase[] is undefined behaviour: the job is published on a
\* smashed stack, or the task ends before it is (crashed).
CallMinerStartJob(crashed) ==
    LET cb == createCoinbaseHash(fx.args[2], fx.args[3], fx.args[4], fx.args[5])
    IN
    /\ fx.fn = "miner_start_job"
    /\ ~fx.done
    /\ crashed => cb.top > COINBASE_SIZE
    /\ fx' = [fx EXCEPT !.done = TRUE, !.ret = cb]
    /\ IF crashed THEN UNCHANGED minerVars ELSE miner_start_job(fx.args[1])
    /\ UNCHANGED <<taskVars, netVars, envVars, idVars, ringVars, s_submitQueue, found,
                   age, ghostVars, matched, rxId, coreVars, rd>>

\* ------------------------------------------------------------ the nonces
\* The nonces miner_task_core1 (minerId 1, the only worker that hashes) gives
\* to the SHA engine after a miner_start_job that drew r.  On the pipelined
\* path the counter is nonce_swapped, incremented by the assembly loop, and
\* the header nonce is its byte swap; on the sequential path it is hb.nonce.
StartLane(path, r) ==
    /\ fx = NoCall
    /\ fx' = [fn |-> "nonces", path |-> path, minerId |-> 1, n |-> 0,
              counter |-> IF path = "pipelined" THEN bswap32(s_startNonce(r)[1])
                          ELSE s_startNonce(r)[1],
              nonce |-> <<0, 0>>, before |-> <<0, 0>>]
    /\ UNCHANGED <<progVars, rd>>

\* one hash: the nonce of the header hashed, the counter incremented
HashNonce ==
    /\ fx.fn = "nonces"
    /\ fx.n < MaxHashes
    /\ fx' = [fx EXCEPT !.n = fx.n + 1,
                        !.nonce = IF fx.path = "pipelined" THEN bswap32(fx.counter)
                                  ELSE fx.counter,
                        !.before = fx.nonce,
                        !.counter = Inc32(fx.counter)]
    /\ UNCHANGED <<progVars, rd>>

\* ------------------------------------------------------------- the yields
\* The mining loop of miner_task_core1 while s_miningActive stays true.
\* counter is nonce_swapped (pipelined) or hb.nonce (sequential), sinceYield
\* the hashes computed since the task last called vTaskDelay.
StartRun(path, r) ==
    /\ fx = NoCall
    /\ fx' = [fn |-> "run", path |-> path, pc |-> "mine", bursts |-> 0, sinceYield |-> 0,
              counter |-> IF path = "pipelined" THEN bswap32(s_startNonce(r)[1])
                          ELSE s_startNonce(r)[1]]
    /\ UNCHANGED <<progVars, rd>>

\* sha256_pipelined_mine: the assembly loop hashes nonce after nonce and comes
\* back at the first digest that passes the 16-bit check, the k-th; it has no
\* yield of its own
PipelinedMine(k) ==
    /\ fx.fn = "run" /\ fx.path = "pipelined" /\ fx.pc = "mine"
    /\ fx.bursts < MaxBursts
    /\ fx' = [fx EXCEPT !.pc = "yield", !.bursts = fx.bursts + 1,
                        !.counter = Add32(fx.counter, k),
                        !.sinceYield = Min(fx.sinceYield + k, 4 * YIELD_EVERY)]
    /\ UNCHANGED <<progVars, rd>>

\* if ((nonce_swapped & 0x3FFFF) == 0) vTaskDelay(1), after the candidate
PipelinedYield ==
    /\ fx.fn = "run" /\ fx.path = "pipelined" /\ fx.pc = "yield"
    /\ fx' = [fx EXCEPT !.pc = "mine",
                        !.sinceYield = IF YieldMask(fx.counter) = 0 THEN 0 ELSE fx.sinceYield]
    /\ UNCHANGED <<progVars, rd>>

\* the sequential loop: hash, hb.nonce++, yield if (hb.nonce & 0x3FFFF) == 0.
\* k hashes in one step: one, or as many as lead to the next yield.
SequentialMine ==
    /\ fx.fn = "run" /\ fx.path = "sequential" /\ fx.pc = "mine"
    /\ fx.bursts < MaxBursts
    /\ LET toYield == YIELD_EVERY - YieldMask(fx.counter)
       IN  \E k \in {1, toYield} :
              fx' = [fx EXCEPT !.bursts = fx.bursts + 1,
                               !.counter = Add32(fx.counter, k),
                               !.sinceYield = IF k = toYield THEN 0 ELSE fx.sinceYield + k]
    /\ UNCHANGED <<progVars, rd>>

\* ------------------------------------------- the pool target, byte by byte
\* miner_set_difficulty in the stratum task and check_target in a worker,
\* followed byte by byte: neither takes s_jobMutex.  w is the next byte of
\* s_poolTarget adjust_target_for_difficulty writes (32: not writing), i the
\* next byte check_target reads (-2: not called, -1: returned), seen the
\* target bytes it has read, from byte 31 down.
NoRace ==
    [fn |-> "check_target", old |-> s_poolTarget, new |-> s_poolTarget, w |-> 32,
     writes |-> 0, hash |-> ZeroTarget, i |-> -2, seen |-> << >>, ret |-> FALSE]

Race == IF fx = NoCall THEN NoRace ELSE fx

\* the stratum task is not inside miner_set_difficulty
NotWriting == Race.w = 32

\* the message loop handles a mining.set_difficulty: s_poolDifficulty = diff,
\* and setPoolTarget has computed the target it is about to store
SetDifficultyBegin(diff) ==
    /\ pc = "rx"
    /\ s_miningActive
    /\ NotWriting
    /\ Race.writes < MaxWrites
    /\ s_poolDifficulty' = diff
    /\ fx' = [Race EXCEPT !.old = s_poolTarget, !.new = setPoolTarget(diff), !.w = 0,
                          !.writes = Race.writes + 1]
    /\ UNCHANGED <<taskVars, netVars, envVars, idVars, ringVars, s_submitQueue, found,
                   s_extraNonce1, s_miningActive, s_poolTarget, jobVars, age, ghostVars,
                   matched, rxId, coreVars, rd>>

\* pt[w] = ...: one byte of s_poolTarget is stored
TargetWrite ==
    /\ fx # NoCall
    /\ fx.w < 32
    /\ s_poolTarget' = [s_poolTarget EXCEPT ![fx.w] = fx.new[fx.w]]
    /\ fx' = [fx EXCEPT !.w = fx.w + 1]
    /\ UNCHANGED <<taskVars, netVars, envVars, idVars, ringVars, s_submitQueue, found,
                   s_extraNonce1, s_miningActive, s_poolDifficulty, jobVars, age,
                   ghostVars, matched, rxId, coreVars, rd>>

\* hashCheck in a worker calls check_target(ctx->bytes, s_poolTarget)
CheckBegin(digest) ==
    /\ s_miningActive
    /\ Race.i = -2
    /\ fx' = [Race EXCEPT !.hash = digest, !.i = 31]
    /\ UNCHANGED <<progVars, rd>>

\* one turn of its loop: target[i] is read and compared with hash[i]
CheckRead ==
    /\ fx # NoCall
    /\ fx.i >= 0
    /\ fx' = [fx EXCEPT !.seen = Append(fx.seen, s_poolTarget[fx.i]),
                        !.i = IF fx.hash[fx.i] = s_poolTarget[fx.i] THEN fx.i - 1 ELSE -1,
                        !.ret = fx.hash[fx.i] <= s_poolTarget[fx.i]]
    /\ UNCHANGED <<progVars, rd>>

\* --------------------------------------------------------------- submitShare
\* worker names the device may be configured with ("" is none)
WorkerNames == {"", "rig1"}

\* subscribe(client, wallet, password): the first parameter of its
\* mining.authorize is the wallet of the pool whose session it opens, followed
\* by "." and s_primaryPool.workerName when that is set
AuthorizeUsername(pool, workerName) == [wallet |-> pool, worker |-> workerName]

\* submitShare: the first parameter of mining.submit is s_primaryPool.wallet
SubmitUsername(workerName) == [wallet |-> "primary", worker |-> ""]

\* the queue drained by submitShare, entry by entry: every entry takes an id;
\* it is recorded in the ring only if the socket is connected
RECURSIVE Drain(_, _, _, _, _, _)
Drain(n, m, ring, idx, ids, up) ==
    IF n = 0 THEN [m |-> m, ring |-> ring, idx |-> idx, ids |-> ids]
    ELSE LET g == getNextId(m)
         IN  IF up
             THEN Drain(n - 1, g.next, [ring EXCEPT ![idx] = g.id],
                        (idx + 1) % MAX_PENDING_SUBMISSIONS, ids \o <<g.id>>, up)
             ELSE Drain(n - 1, g.next, ring, idx, ids, up)

\* No line is waiting: drain the submission queue, send the keepalive when
\* keepDue (millis() - s_lastSubmit > KEEPALIVE_MS), disconnect when inactDue
\* (millis() - s_lastActivity > INACTIVITY_MS), sleep 100 ms.
RxDone(dt, keepDue, inactDue) ==
    LET up   == client # "none"
        n    == Len(s_submitQueue)
        d    == Drain(n, s_messageId, s_pendingResponses, s_pendingIndex, << >>, up)
        sent == up /\ n > 0
        keep == keepDue /\ ~sent
        k    == getNextId(d.m)
    IN
    /\ pc = "rx"
    /\ pc' = "loop"
    /\ s_submitQueue' = << >>
    /\ s_pendingResponses' = d.ring
    /\ s_pendingIndex' = d.idx
    /\ s_stats' = [s_stats EXCEPT !.shares = @ + Len(d.ids)]
    /\ s_messageId' = IF keep THEN k.next ELSE d.m
    /\ Sent(IF keep /\ up THEN d.ids \o <<k.id>> ELSE d.ids)
    /\ TimeStep(0, IF sent \/ keep THEN {"submit"} ELSE {}, dt)
    /\ IF inactDue
       THEN /\ miner_stop
            /\ client' = "none"
            /\ s_isConnected' = FALSE
       ELSE UNCHANGED <<s_miningActive, client, s_isConnected>>
    /\ Clocks(dt, FALSE)
    /\ matched' = ""
    /\ rxId' = -1
    /\ UNCHANGED lastDiff
    /\ UNCHANGED <<coreVars, libVars>>
    /\ hsNotify' = IF hsNotify = "" THEN "" ELSE "lost"
    /\ UNCHANGED <<hs, usingBackup, s_currentPoolUrl, testClient, envVars, sentLog,
                   found, s_extraNonce1, s_poolDifficulty, s_poolTarget,
                   jobVars>>

\* ------------------------------------------------------------------ hashCheck
\* the block target is written by miner_start_job together with the job id
s_blockTarget == bits_to_target(nbits(s_currentJobId).exponent, nbits(s_currentJobId).mantissa)

\* the digests the workers come upon
Digests ==
    {ZeroTarget, FullTarget, MaxTarget, setPoolTarget(<<2, 1>>),
     bits_to_target(nbits("B").exponent, nbits("B").mantissa)}

\* the flags hashCheck puts on a submission: ctx->hash[7] = 0, block target met
hashCheckFlags(digest, blockTarget) ==
    (IF \A i \in 28 .. 31 : digest[i] = 0 THEN {"SUBMIT_FLAG_32BIT"} ELSE {})
    \cup (IF check_target(digest, blockTarget) THEN {"SUBMIT_FLAG_BLOCK"} ELSE {})

\* A difficulty is kept as the digest it is the quotient maxTarget / digest
\* of; zero stands for 0.0.
NoDifficulty == [zero |-> TRUE, hash |-> ZeroTarget]

\* getDifficulty: maxTarget / hashValue, and 0.0 in place of the infinity that
\* the digest 0 gives
getDifficulty(digest) ==
    IF digest = ZeroTarget THEN NoDifficulty ELSE [zero |-> FALSE, hash |-> digest]

\* a >= b for two difficulties
DifficultyGeq(a, b) == b.zero \/ (~a.zero /\ check_target(a.hash, b.hash))

\* compareBestDifficulty: s_stats.bestDifficulty after a digest was compared
compareBestDifficulty(best, digest) ==
    IF DifficultyGeq(getDifficulty(digest), best) THEN getDifficulty(digest) ELSE best

\* s_stats.bestDifficulty, and the largest difficulty among the digests that
\* met the pool target, as the hashCheck calls so far left them
BestSoFar ==
    IF fx.fn = "hashCheck" THEN [best |-> fx.best, ofShares |-> fx.ofShares]
    ELSE [best |-> NoDifficulty, ofShares |-> NoDifficulty]

\* hashCheck in a worker on a digest: nothing is submitted unless the digest
\* meets the pool target; the submission is dropped when the queue stays full
HashCheck(digest) ==
    LET share == check_target(digest, s_poolTarget)
        room  == Len(s_submitQueue) < MAX_PENDING_SUBMISSIONS
    IN
    /\ s_miningActive
    /\ share => found < MaxShares
    /\ fx' = [fn |-> "hashCheck", hash |-> digest, block |-> s_blockTarget,
              share |-> share,
              flags |-> IF share THEN hashCheckFlags(digest, s_blockTarget) ELSE {},
              best |-> compareBestDifficulty(BestSoFar.best, digest),
              ofShares |-> IF share /\ DifficultyGeq(getDifficulty(digest), BestSoFar.ofShares)
                           THEN getDifficulty(digest) ELSE BestSoFar.ofShares]
    /\ found' = IF share THEN found + 1 ELSE found
    /\ s_submitQueue' = IF share /\ room
                        THEN Append(s_submitQueue, s_currentJobId)
                        ELSE s_submitQueue
    /\ s_stats' = IF share THEN [s_stats EXCEPT !.shares = @ + 1] ELSE s_stats
    /\ ReadsNone
    /\ UNCHANGED <<taskVars, netVars, envVars, idVars, s_pendingResponses,
                   s_pendingIndex, minerVars, age, ghostVars, coreVars, rd>>

\* ------------------------------------------------------------ other tasks
\* hashCheck in a worker: a share met the pool target; stratum_submit_share
\* drops it when the queue is full
WorkerShare ==
    /\ s_miningActive
    /\ found < MaxShares
    /\ found' = found + 1
    /\ s_submitQueue' = IF Len(s_submitQueue) < MAX_PENDING_SUBMISSIONS
                        THEN Append(s_submitQueue, s_currentJobId)
                        ELSE s_submitQueue
    /\ s_stats' = [s_stats EXCEPT !.shares = @ + 1]
    /\ UNCHANGED <<coreVars, libVars>>
    /\ ReadsNone
    /\ UNCHANGED <<taskVars, netVars, envVars, idVars, s_pendingResponses,
                   s_pendingIndex, minerVars, age, ghostVars>>

\* stratum_reconnect
stratum_reconnect ==
    /\ ~s_reconnectRequested
    /\ s_reconnectRequested' = TRUE
    /\ UNCHANGED <<coreVars, libVars>>
    /\ ReadsNone
    /\ UNCHANGED <<taskVars, netVars, wifi, walletSet, s_hasBackupPool, idVars,
                   ringVars, s_submitQueue, found, minerVars, age, ghostVars>>

\* saveParamsCallback: stratum_set_pool with a wallet, then stratum_reconnect
stratum_set_pool ==
    /\ ~walletSet
    /\ walletSet' = TRUE
    /\ s_reconnectRequested' = TRUE
    /\ UNCHANGED <<coreVars, libVars>>
    /\ ReadsNone
    /\ UNCHANGED <<taskVars, netVars, wifi, s_hasBackupPool, idVars, ringVars,
                   s_submitQueue, found, minerVars, age, ghostVars>>

\* the Wi-Fi link comes up or goes down
WifiChange ==
    /\ wifi' = ~wifi
    /\ UNCHANGED <<coreVars, libVars>>
    /\ ReadsNone
    /\ UNCHANGED <<taskVars, netVars, walletSet, s_hasBackupPool,
                   s_reconnectRequested, idVars, ringVars, s_submitQueue, found,
                   minerVars, age, ghostVars>>

\* the pool closes the connection of the task's socket
PeerClose ==
    /\ client # "none"
    /\ client' = "none"
    /\ UNCHANGED <<coreVars, libVars>>
    /\ ReadsNone
    /\ UNCHANGED <<taskVars, testClient, envVars, idVars, ringVars, s_submitQueue,
                   found, minerVars, age, ghostVars>>

\* the primary closes the connection of the probe socket
ProbeClose ==
    /\ testClient # "none"
    /\ testClient' = "none"
    /\ UNCHANGED <<coreVars, libVars>>
    /\ ReadsNone
    /\ UNCHANGED <<taskVars, client, envVars, idVars, ringVars, s_submitQueue,
                   found, minerVars, age, ghostVars>>

\* ----------------------- miner_start_job and miner_task_core1, step by step
stratumVars == <<taskVars, netVars, envVars, idVars, ringVars, age, ghostVars>>

\* miner_start_job(job) is called: s_miningActive = false
StartJobStop(job) ==
    /\ startJob.pc = "idle"
    /\ s_miningActive' = FALSE
    /\ startJob' = [pc |-> "wait", job |-> job]
    /\ hashed' = ""
    /\ ReadsNone
    /\ UNCHANGED <<stratumVars, libVars, s_submitQueue, found, s_extraNonce1, s_poolDifficulty,
                   s_poolTarget, jobVars, core1, s_core1Mining, s_jobMutex,
                   jobId, hb, started>>

\* while (s_core0Mining || s_core1Mining) vTaskDelay(10): core 0 never mines
StartJobWait ==
    /\ startJob.pc = "wait"
    /\ ~s_core1Mining
    /\ startJob' = [startJob EXCEPT !.pc = "take"]
    /\ hashed' = ""
    /\ ReadsNone
    /\ UNCHANGED <<stratumVars, libVars, s_submitQueue, found, minerVars, core1, s_core1Mining,
                   s_jobMutex, jobId, hb, started>>

\* xSemaphoreTake(s_jobMutex, portMAX_DELAY)
StartJobTake ==
    /\ startJob.pc = "take"
    /\ s_jobMutex = "none"
    /\ s_jobMutex' = "stratum"
    /\ startJob' = [startJob EXCEPT !.pc = "build"]
    /\ hashed' = ""
    /\ ReadsNone
    /\ UNCHANGED <<stratumVars, libVars, s_submitQueue, found, minerVars, core1, s_core1Mining,
                   jobId, hb, started>>

\* s_extraNonce2 = esp_random(); the header is built: version, prev_hash, the
\* Merkle root of the coinbase with that extranonce2, ntime, nbits
StartJobBuild ==
    /\ startJob.pc = "build"
    /\ s_extraNonce2' = startJob.job
    /\ s_pendingBlock' = startJob.job
    /\ startJob' = [startJob EXCEPT !.pc = "publish"]
    /\ hashed' = ""
    /\ ReadsNone
    /\ UNCHANGED <<stratumVars, libVars, s_submitQueue, found, s_extraNonce1, s_miningActive,
                   s_poolDifficulty, s_poolTarget, s_currentJobId, core1,
                   s_core1Mining, s_jobMutex, jobId, hb, started>>

\* the job id and the targets are written; xSemaphoreGive
StartJobPublish ==
    /\ startJob.pc = "publish"
    /\ s_currentJobId' = startJob.job
    /\ s_poolTarget' = setPoolTarget(s_poolDifficulty)
    /\ s_jobMutex' = "none"
    /\ startJob' = [startJob EXCEPT !.pc = "resume"]
    /\ hashed' = ""
    /\ ReadsNone
    /\ UNCHANGED <<stratumVars, libVars, s_submitQueue, found, s_extraNonce1, s_miningActive,
                   s_poolDifficulty, s_pendingBlock, s_extraNonce2, core1,
                   s_core1Mining, jobId, hb, started>>

\* s_miningActive = true; miner_start_job returns
StartJobResume ==
    /\ startJob.pc = "resume"
    /\ s_miningActive' = TRUE
    /\ startJob' = [startJob EXCEPT !.pc = "idle"]
    /\ started' = startJob.job
    /\ hashed' = ""
    /\ ReadsNone
    /\ UNCHANGED <<stratumVars, libVars, s_submitQueue, found, s_extraNonce1, s_poolDifficulty,
                   s_poolTarget, jobVars, core1, s_core1Mining, s_jobMutex,
                   jobId, hb>>

\* the worker moves on to position to; what else it leaves alone
Core1Goes(to) ==
    /\ core1' = to
    /\ hashed' = ""
    /\ ReadsNone
    /\ UNCHANGED <<stratumVars, libVars, s_submitQueue, found, minerVars, startJob, started>>

\* while (!s_miningActive) vTaskDelay(100): wait for the first job
Core1First ==
    /\ core1 = "first"
    /\ s_miningActive
    /\ Core1Goes("check")
    /\ UNCHANGED <<s_core1Mining, s_jobMutex, jobId, hb>>

\* if (!s_miningActive) { vTaskDelay(100); continue; }
Core1Check ==
    /\ core1 = "check"
    /\ s_miningActive
    /\ Core1Goes("mark")
    /\ UNCHANGED <<s_core1Mining, s_jobMutex, jobId, hb>>

\* s_core1Mining = true
Core1Mark ==
    /\ core1 = "mark"
    /\ s_core1Mining' = TRUE
    /\ Core1Goes("take")
    /\ UNCHANGED <<s_jobMutex, jobId, hb>>

\* xSemaphoreTake without the mutex being free
Core1TakeAnyway ==
    /\ core1 = "take"
    /\ s_jobMutex' = "core1"
    /\ Core1Goes("copy")
    /\ UNCHANGED <<s_core1Mining, jobId, hb>>

\* xSemaphoreTake(s_jobMutex, portMAX_DELAY)
Core1Take ==
    /\ core1 = "take"
    /\ s_jobMutex = "none"
    /\ s_jobMutex' = "core1"
    /\ Core1Goes("copy")
    /\ UNCHANGED <<s_core1Mining, jobId, hb>>

\* memcpy(&hb, &s_pendingBlock, sizeof(block_header_t))
Core1Copy ==
    /\ core1 = "copy"
    /\ hb' = s_pendingBlock
    /\ Core1Goes("copyId")
    /\ UNCHANGED <<s_core1Mining, s_jobMutex, jobId>>

\* strncpy(jobId, s_currentJobId, MAX_JOB_ID_LEN); xSemaphoreGive
Core1CopyId ==
    /\ core1 = "copyId"
    /\ jobId' = s_currentJobId
    /\ s_jobMutex' = "none"
    /\ Core1Goes("mine")
    /\ UNCHANGED <<s_core1Mining, hb>>

\* while (s_miningActive): one hash over the copied header; share: the digest
\* meets the pool target and hashCheck submits it under the copied job id
Core1Mine(share) ==
    /\ core1 = "mine"
    /\ s_miningActive
    /\ share => (found < MaxShares /\ Len(s_submitQueue) < MAX_PENDING_SUBMISSIONS)
    /\ hashed' = jobId
    /\ found' = IF share THEN found + 1 ELSE found
    /\ s_submitQueue' = IF share /\ Len(s_submitQueue) < MAX_PENDING_SUBMISSIONS
                        THEN Append(s_submitQueue, jobId)
                        ELSE s_submitQueue
    /\ s_stats' = IF share THEN [s_stats EXCEPT !.shares = @ + 1] ELSE s_stats
    /\ ReadsNone
    /\ UNCHANGED <<taskVars, netVars, envVars, idVars, s_pendingResponses,
                   s_pendingIndex, age, ghostVars, minerVars, startJob, core1,
                   s_core1Mining, s_jobMutex, jobId, hb, started, libVars>>

\* what a step of the worker inside stratum_submit_share leaves alone
Core1Sends ==
    /\ ReadsNone
    /\ UNCHANGED <<taskVars, netVars, envVars, idVars, s_pendingResponses,
                   s_pendingIndex, age, ghostVars, minerVars, startJob,
                   s_core1Mining, s_jobMutex, jobId, hb, started, libVars>>

\* one hash whose digest meets the pool target while the submission queue is
\* full: xQueueSend(s_submitQueue, entry, pdMS_TO_TICKS(100)) blocks
Core1SendFull ==
    /\ core1 = "mine"
    /\ s_miningActive
    /\ found < MaxShares
    /\ Len(s_submitQueue) = MAX_PENDING_SUBMISSIONS
    /\ hashed' = jobId
    /\ found' = found + 1
    /\ core1' = "send"
    /\ UNCHANGED <<s_submitQueue, s_stats>>
    /\ Core1Sends

\* the stratum task has taken entries within the 100 ms: the entry is queued,
\* xQueueSend returns pdTRUE, hashCheck counts the share
Core1SendOk ==
    /\ core1 = "send"
    /\ Len(s_submitQueue) < MAX_PENDING_SUBMISSIONS
    /\ s_submitQueue' = Append(s_submitQueue, jobId)
    /\ s_stats' = [s_stats EXCEPT !.shares = @ + 1]
    /\ core1' = "mine"
    /\ hashed' = ""
    /\ UNCHANGED found
    /\ Core1Sends

\* the queue stayed full for 100 ms: xQueueSend returns errQUEUE_FULL, the
\* entry is dropped, hashCheck counts the share all the same
Core1SendTimeout ==
    /\ core1 = "send"
    /\ Len(s_submitQueue) = MAX_PENDING_SUBMISSIONS
    /\ s_stats' = [s_stats EXCEPT !.shares = @ + 1]
    /\ core1' = "mine"
    /\ hashed' = ""
    /\ UNCHANGED <<s_submitQueue, found>>
    /\ Core1Sends

\* the loop is left: s_core1Mining = false
Core1Stop ==
    /\ core1 = "mine"
    /\ ~s_miningActive
    /\ s_core1Mining' = FALSE
    /\ Core1Goes("check")
    /\ UNCHANGED <<s_jobMutex, jobId, hb>>

\* ------------------------------- the loop of miner_task_core1, step by step
\* Word 7 of the SHA text registers after the second hash was loaded, as the
\* four bytes at offsets 28 .. 31 of the register file.
TextWords ==
    {<<0, 0, 0, 0>>, <<1, 0, 0, 0>>, <<0, 1, 0, 0>>, <<0, 0, 1, 0>>, <<0, 0, 0, 1>>,
     <<0, 0, 255, 255>>, <<255, 255, 0, 0>>}

\* l16ui a3, sb, 28: the little-endian halfword at offset 28
l16ui(text) == text[1] + 256 * text[2]

\* Bytes 28 .. 31 of the digest handed to hashCheck: word 7 with its bytes
\* swapped (__builtin_bswap32), the format of ll_read_digest_if.
ll_read_digest(text) == [i \in 28 .. 31 |-> text[32 - i]]

\* a step of the worker that changes its call record
Core1Calls(to) ==
    /\ core1' = to
    /\ ReadsNone
    /\ UNCHANGED <<stratumVars, rd, minerVars, startJob, started, s_jobMutex,
                   jobId, hb>>

\* while (s_miningActive): sha256_pipelined_mine is called
Core1Enter ==
    /\ core1 = "mine"
    /\ s_miningActive
    /\ fx' = [fn |-> "sha256_pipelined_mine", pc |-> "start", text |-> << >>,
              ret |-> FALSE]
    /\ hashed' = ""
    /\ Core1Calls("asm")
    /\ UNCHANGED <<s_submitQueue, found, s_core1Mining, s_stats>>

\* proc_start .. label 5: both hashes of the header with the nonce are done,
\* the nonce and the hash counter incremented, the digest loaded
AsmHash ==
    /\ core1 = "asm"
    /\ fx.pc = "start"
    /\ \E text \in TextWords : fx' = [fx EXCEPT !.pc = "flag", !.text = text]
    /\ hashed' = hb
    /\ Core1Calls("asm")
    /\ UNCHANGED <<s_submitQueue, found, s_core1Mining, s_stats>>

\* l8ui a3, flag; beqz.n a3, proc_end
AsmFlag ==
    /\ core1 = "asm"
    /\ fx.pc = "flag"
    /\ fx' = [fx EXCEPT !.pc = IF s_miningActive THEN "reject" ELSE "end"]
    /\ hashed' = ""
    /\ Core1Calls("asm")
    /\ UNCHANGED <<s_submitQueue, found, s_core1Mining, s_stats>>

\* l16ui a3, sb, 28; beqz.n a3, proc_end; j proc_start
AsmReject ==
    /\ core1 = "asm"
    /\ fx.pc = "reject"
    /\ fx' = IF l16ui(fx.text) = 0
             THEN [fx EXCEPT !.pc = "end"]
             ELSE [fx EXCEPT !.pc = "start", !.text = << >>]
    /\ hashed' = ""
    /\ Core1Calls("asm")
    /\ UNCHANGED <<s_submitQueue, found, s_core1Mining, s_stats>>

\* proc_end: if (*mining_flag) { if (!shaEnabled) return false; return true; }
\* return false; shaEnabled is the clock-enable bit of the SHA peripheral as
\* read from DPORT_PERI_CLK_EN_REG, which other users of the peripheral write
AsmEnd(shaEnabled) ==
    /\ core1 = "asm"
    /\ fx.pc = "end"
    /\ fx' = [fx EXCEPT !.pc = "done", !.ret = s_miningActive /\ shaEnabled]
    /\ hashed' = ""
    /\ Core1Calls("ret")
    /\ UNCHANGED <<s_submitQueue, found, s_core1Mining, s_stats>>

\* candidate = the value returned; if (!s_miningActive) break; if (candidate)
\* the digest is verified, else the loop goes on with the nonce the assembly
\* left, the one after the last it hashed
Core1Ret ==
    /\ core1 = "ret"
    /\ IF ~s_miningActive
       THEN /\ s_core1Mining' = FALSE
            /\ core1' = "check"
       ELSE /\ core1' = IF fx.ret THEN "verify" ELSE "mine"
            /\ UNCHANGED s_core1Mining
    /\ fx' = NoCall
    /\ hashed' = ""
    /\ ReadsNone
    /\ UNCHANGED <<stratumVars, rd, s_submitQueue, found, minerVars, startJob,
                   started, s_jobMutex, jobId, hb>>

\* sha256_ll_double_hash_full and hashCheck(jobId, &ctx, hb.timestamp, nonce):
\* share: the digest meets the pool target, the submission is built from the
\* local job id, the local header's ntime and the global s_extraNonce2
Core1Verify(share) ==
    /\ core1 = "verify"
    /\ share => (found < MaxShares /\ Len(s_submitQueue) < MAX_PENDING_SUBMISSIONS)
    /\ fx' = IF share
             THEN [fn |-> "submit_entry", jobId |-> jobId, ntime |-> hb,
                   extraNonce2 |-> s_extraNonce2, header |-> hb]
             ELSE NoCall
    /\ found' = IF share THEN found + 1 ELSE found
    /\ s_submitQueue' = IF share THEN Append(s_submitQueue, jobId) ELSE s_submitQueue
    /\ s_stats' = IF share THEN [s_stats EXCEPT !.shares = @ + 1] ELSE s_stats
    /\ hashed' = hb
    /\ core1' = "mine"
    /\ ReadsNone
    /\ UNCHANGED <<taskVars, netVars, envVars, idVars, s_pendingResponses,
                   s_pendingIndex, age, ghostVars, rd, minerVars, startJob, started,
                   s_core1Mining, s_jobMutex, jobId, hb>>

\* miner_task_core0, the loop that is compiled: s_core0Mining = false;
\* vTaskDelay(1000). It copies no job and computes no hash.
miner_task_core0 ==
    /\ hashed' = ""
    /\ ReadsNone
    /\ UNCHANGED <<taskVars, netVars, envVars, idVars, ringVars, s_submitQueue, found,
                   minerVars, age, ghostVars, startJob, core1, s_core1Mining,
                   s_jobMutex, jobId, hb, started, libVars>>

\* --------------------------------------------------------- specifications
\* the stratum task under every timing: no clock, the outcomes of the
\* comparisons with millis() are free
TaskStep ==
    \/ LoopWifiDown(0)
    \/ LoopNoConfig(0)
    \/ LoopReconnect(0)
    \/ LoopConnectOk(0)
    \/ \E due, ok \in BOOLEAN : LoopConnectFail(0, due, ok, 0)
    \/ \E due, ok \in BOOLEAN : LoopConnected(0, due, ok)
    \/ \E keepDue, inactDue \in BOOLEAN : RxDone(0, keepDue, inactDue)

\* The response that lets subscribe() go on: the id waited for, an array for
\* mining.subscribe, true for mining.authorize.
GoodReply ==
    Ln("response", hs.expectedId, IF hs.stage = "sub" THEN "array" ELSE "true", "-", NoParam)

\* A pool of few words: one job, one difficulty, one malformed difficulty.
Plain(l) ==
    /\ l.kind = "notify" => l.job = "A"
    /\ l.kind = "set_difficulty" => l.diff \in {<<"num", 2, 1>>, <<"zero", 0, 0>>}

\* What the pool may send while subscribe() waits: every kind of line, the
\* responses with the id waited for or with an id that was never sent.
HsLines ==
    {l \in Lines : Plain(l) /\ (l.kind = "response" => l.id \in {hs.expectedId, UINT32_MAX})}

\* What the pool may send in the mining loop when no submission is pending.
IdleLines ==
    {l \in Lines : Plain(l) /\ (l.kind = "response" => (l.id = UINT32_MAX /\ l.res = "true"))}

\* wifi, the wallet and the reconnect request are read at the top of the loop
\* only: a change is taken at the next read.
Next ==
    \/ TaskStep
    \/ \E line \in HsLines, alive \in BOOLEAN : HsRead(line, 0, alive, 0)
    \/ \E line \in IdleLines : RxLine(line, 0)
    \/ pc = "loop" /\ stratum_reconnect
    \/ pc = "loop" /\ stratum_set_pool
    \/ pc = "loop" /\ WifiChange
    \/ PeerClose
    \/ ProbeClose

\* no timestamp is followed
Untimed == \A k \in DOMAIN age : age[k] = -1

InitUntimed == Quiescent /\ Init /\ Untimed

Spec == InitUntimed /\ [][Next]_vars

\* ---- difficulty: a device that is configured and online, one pool, every
\* set_difficulty parameter and both jobs, in the handshake and in the loop
InitOnline == InitUntimed /\ wifi /\ walletSet /\ ~s_hasBackupPool

DiffHsLines == {EmptyLine, GoodReply} \cup SetDiffLines \cup NotifyLines

DiffNext ==
    \/ LoopConnectOk(0)
    \/ \E ok \in BOOLEAN : LoopConnectFail(0, FALSE, ok, 0)
    \/ LoopConnected(0, FALSE, FALSE)
    \/ \E line \in DiffHsLines : HsRead(line, 0, TRUE, 0)
    \/ \E line \in SetDiffLines \cup NotifyLines : RxLine(line, 0)
    \/ \E inactDue \in BOOLEAN : RxDone(0, FALSE, inactDue)

DiffSpec == InitOnline /\ [][DiffNext]_vars

\* ---- shares: the same device with workers that find shares; the pool
\* answers with the ids in the ring, with 0 and with an id that was never sent
RingLines ==
    {l \in ResponseLines :
        /\ l.res \in {"true", "false"}
        /\ l.id \in {0, UINT32_MAX} \cup {s_pendingResponses[i] : i \in Slots}}
    \cup {Ln("notify", 0, "-", "A", NoParam)}

\* the pool falls silent once MaxCount responses were counted
Counting == s_stats.accepted + s_stats.rejected < MaxCount

RingNext ==
    \/ LoopConnectOk(0)
    \/ LoopConnected(0, FALSE, FALSE)
    \/ \E line \in {EmptyLine, GoodReply} : HsRead(line, 0, TRUE, 0)
    \/ \E line \in RingLines : Counting /\ RxLine(line, 0)
    \/ \E keepDue \in BOOLEAN : RxDone(0, keepDue, FALSE)
    \/ WorkerShare
    \/ PeerClose

RingSpec == InitOnline /\ [][RingNext]_vars

\* ---- failover: the clock runs; a blocking call (a connect, a read, the
\* 100 ms sleep of the loop) takes no tick or one, the retry sleep takes one;
\* the primary accepts or refuses each connect, and so does the backup
Ticks == 0 .. 1

\* lastConnectAttempt and backupConnectTime are followed
InitConfigured ==
    /\ Quiescent
    /\ Init
    /\ wifi
    /\ walletSet
    /\ age = [attempt |-> 0, backup |-> 0, activity |-> -1, submit |-> -1]

FailoverNext ==
    \/ \E dt \in Ticks : LoopConnectOk(dt)
    \/ \E dt \in Ticks, ok \in BOOLEAN :
          LoopConnectFail(dt, Elapsed(Aged(age, dt), "attempt", POOL_FAILOVER_MS), ok, 1)
    \/ \E dt \in Ticks, ok \in BOOLEAN :
          LoopConnected(dt, Elapsed(age, "backup", PROBE_MS), ok)
    \/ \E line \in {EmptyLine, GoodReply}, dt \in Ticks : HsRead(line, dt, TRUE, 1)
    \/ \E dt \in Ticks, keepDue, inactDue \in BOOLEAN : RxDone(dt, keepDue, inactDue)
    \/ PeerClose

FailoverSpec == InitConfigured /\ [][FailoverNext]_vars

\* ---- inactivity: one pool that is always reachable and sends what it likes
QuietLines ==
    {Ln("notify", 0, "-", "A", NoParam), Ln("set_difficulty", 0, "-", "-", <<"num", 1, 1>>),
     Ln("response", UINT32_MAX, "true", "-", NoParam)}

QuietNext ==
    \/ LoopConnectOk(0)
    \/ LoopConnected(0, FALSE, FALSE)
    \/ \E line \in {EmptyLine, GoodReply} : HsRead(line, 0, TRUE, 1)
    \/ \E line \in QuietLines : RxLine(line, 0)
    \/ \E dt \in Ticks, keepDue \in BOOLEAN :
          RxDone(dt, keepDue, Elapsed(age, "activity", INACTIVITY_MS))

\* s_lastActivity is followed
InitQuiet ==
    /\ Quiescent
    /\ Init
    /\ wifi
    /\ walletSet
    /\ ~s_hasBackupPool
    /\ age = [attempt |-> -1, backup |-> -1, activity |-> 0, submit |-> -1]

QuietSpec == InitQuiet /\ [][QuietNext]_vars

\* ---- keepalive: a pool that answers the handshake at once, a session whose
\* workers find a share now and then, the clock running while the loop sleeps
KeepNext ==
    \/ LoopConnectOk(0)
    \/ LoopConnected(0, FALSE, FALSE)
    \/ HsRead(GoodReply, 0, TRUE, 0)
    \/ RxLine(Ln("notify", 0, "-", "A", NoParam), 0)
    \/ \E dt \in Ticks : RxDone(dt, Elapsed(age, "submit", KEEPALIVE_MS), FALSE)
    \/ WorkerShare

\* s_lastSubmit is followed
InitKeep ==
    /\ Quiescent
    /\ Init
    /\ wifi
    /\ walletSet
    /\ ~s_hasBackupPool
    /\ age = [attempt |-> -1, backup |-> -1, activity |-> -1, submit |-> 0]

KeepSpec == InitKeep /\ [][KeepNext]_vars

\* ---- the line reader: the bytes of the pool arrive in chunks of any size
\* while readBoundedLine is called again and again; the socket stays open and
\* the stream never stalls for the 5 s that end a call without a newline
ReadNext ==
    \/ \E k \in 1 .. (2 * maxLen + MaxOver + 2) : Arrive(k)
    \/ ReadCall
    \/ ReadByte
    \/ DrainByte
    \/ DrainEnd

InitRead == fx = NoCall /\ Init /\ Untimed /\ wifi /\ walletSet /\ ~s_hasBackupPool
            /\ rd # NoFeed

ReadSpec == InitRead /\ [][ReadNext]_vars

\* ---- jobs and targets: a connected session; the pool sends well-formed and
\* malformed notifies and every valid difficulty
TargetNext ==
    \/ LoopConnectOk(0)
    \/ LoopConnected(0, FALSE, FALSE)
    \/ HsRead(GoodReply, 0, TRUE, 0)
    \/ \E line \in NotifyLines \cup BadNotifyLines : RxLine(line, 0)
    \/ \E line \in {l \in SetDiffLines : ValidDiff(l.diff)} : RxLine(line, 0)
    \/ RxDone(0, FALSE, FALSE)
    \/ \E digest \in Digests : HashCheck(digest)

TargetSpec == InitOnline /\ [][TargetNext]_vars

\* ---- the submission queue: core 1 hashes and finds shares while the
\* stratum task runs its loop and takes the queue, every interleaving
QueueNext ==
    \/ LoopConnectOk(0)
    \/ LoopConnected(0, FALSE, FALSE)
    \/ HsRead(GoodReply, 0, TRUE, 0)
    \/ RxLine(Ln("notify", 0, "-", "A", NoParam), 0)
    \/ \E inactDue \in BOOLEAN : RxDone(0, FALSE, inactDue)
    \/ Core1First
    \/ Core1Check
    \/ Core1Mark
    \/ Core1Take
    \/ Core1Copy
    \/ Core1CopyId
    \/ \E share \in BOOLEAN : Core1Mine(share)
    \/ Core1SendFull
    \/ Core1SendOk
    \/ Core1SendTimeout
    \/ Core1Stop

QueueSpec == InitOnline /\ [][QueueNext]_vars

\* ---- the pure functions, each called once on the arguments Init drew
LibNext ==
    \/ CallFormatHex8
    \/ CallEncodeExtraNonce
    \/ CallEncodeExtraNonceWild
    \/ CallCheckTarget
    \/ \E crashed \in BOOLEAN : CallMinerStartJob(crashed)
    \/ \E smashed \in BOOLEAN : CallBitsToTarget(smashed)

InitLib ==
    /\ rd = NoFeed
    /\ wifi = TRUE
    /\ walletSet = TRUE
    /\ s_hasBackupPool = FALSE
    /\ age = [attempt |-> -1, backup |-> -1, activity |-> -1, submit |-> -1]
    /\ Init
    /\ fx # NoCall

LibSpec == InitLib /\ [][LibNext]_vars

\* ---- the job hand-over: the stratum task starts jobs one after the other
\* while core 1 runs its loop, every interleaving of their steps
MinerNext ==
    \/ \E job \in JobIds : StartJobStop(job)
    \/ StartJobWait
    \/ StartJobTake
    \/ StartJobBuild
    \/ StartJobPublish
    \/ StartJobResume
    \/ Core1First
    \/ Core1Check
    \/ Core1Mark
    \/ Core1Take
    \/ Core1Copy
    \/ Core1CopyId
    \/ \E share \in BOOLEAN : Core1Mine(share)
    \/ Core1Stop

MinerSpec == InitOnline /\ [][MinerNext]_vars

\* ---- the same hand-over with the loop of core 1 taken apart: the call of
\* sha256_pipelined_mine instruction group by instruction group, the flag
\* checks around it and hashCheck
PipeNext ==
    \/ \E job \in JobIds : StartJobStop(job)
    \/ StartJobWait
    \/ StartJobTake
    \/ StartJobBuild
    \/ StartJobPublish
    \/ StartJobResume
    \/ Core1First
    \/ Core1Check
    \/ Core1Mark
    \/ Core1Take
    \/ Core1Copy
    \/ Core1CopyId
    \/ Core1Enter
    \/ AsmHash
    \/ AsmFlag
    \/ AsmReject
    \/ \E shaEnabled \in BOOLEAN : AsmEnd(shaEnabled)
    \/ Core1Ret
    \/ \E share \in BOOLEAN : Core1Verify(share)
    \/ Core1Stop

PipeSpec == InitOnline /\ [][PipeNext]_vars

\* ---- a single-core build: setupTasks creates miner_task_core0 as the only
\* worker, next to the stratum task. The scheduler lets every task that can
\* run take its next step; what the pool sends is up to the pool.
SingleCoreTask ==
    \/ LoopConnectOk(0)
    \/ LoopConnected(0, FALSE, FALSE)
    \/ RxDone(0, FALSE, FALSE)

SingleCoreNext ==
    \/ SingleCoreTask
    \/ \E line \in DiffHsLines : HsRead(line, 0, TRUE, 0)
    \/ \E line \in SetDiffLines \cup NotifyLines : RxLine(line, 0)
    \/ miner_task_core0

SingleCoreSpec ==
    /\ InitOnline
    /\ [][SingleCoreNext]_vars
    /\ WF_vars(SingleCoreTask)
    /\ WF_vars(miner_task_core0)

\* ------------------------------------------------------------------ claims
Handshake == <<"mining.subscribe", "mining.suggest_difficulty", "mining.authorize">>

\* C1: the messages of a connection attempt go out in the order subscribe,
\* suggest_difficulty, authorize; authorize goes out only in the step that
\* read a response with the subscribe id that parsed (an array); is_connected()
\* turns true only in the step that read a response with the authorize id and
\* result true, all three messages sent; and when a connect of the loop reads
\* an authorize response with another result, the socket is closed and
\* is_connected() stays false.
C1_HandshakeOrder ==
    [][/\ sentLog' \in {<< >>, SubSeq(Handshake, 1, 1), Handshake}
       /\ (sentLog' = Handshake /\ sentLog # Handshake) =>
             (sentLog = SubSeq(Handshake, 1, 1) /\ hs.stage = "sub" /\ matched' = "array")
       /\ (s_isConnected' /\ ~s_isConnected) =>
             (hs.stage = "auth" /\ matched' = "true" /\ sentLog = Handshake)
       /\ (pc = "wait" /\ hs.stage = "auth" /\ hs.ctx # "probe"
             /\ matched' \in Results \ {"true"}) =>
             (client' = "none" /\ ~s_isConnected /\ ~s_isConnected')]_vars

C1_Witness == s_isConnected /\ matched = "true" /\ sentLog = Handshake /\ usingBackup

\* C2: a notify read by waitForResponseById is not lost: by the time the
\* mining loop finds no line waiting, its job was published.
C2_NotifyNotLost == hsNotify # "lost"

\* C7: whenever is_connected() holds and the socket is up, current_pool() is
\* the pool the socket is connected to: the backup after a failover, the
\* primary after a direct connect or a switch back.
C7_CurrentPool ==
    /\ (s_isConnected /\ client # "none") => s_currentPoolUrl = client
    /\ s_isConnected => s_currentPoolUrl = (IF usingBackup THEN "backup" ELSE "primary")

C7_Witness ==
    /\ s_isConnected
    /\ client = "backup"
    /\ s_currentPoolUrl = "backup"
    /\ sinceProbe = 0
    /\ pc = "rx"

\* C3: after a set_difficulty whose parameter is a positive finite number d,
\* in the mining loop or between the responses of the handshake, the pool
\* difficulty is d and the pool target is the maximum target divided by d, and
\* they stay so, for every job published afterwards, until the next such line.
C3_DifficultyLive ==
    lastDiff # <<0, 0>> =>
        (s_poolDifficulty = lastDiff /\ s_poolTarget = setPoolTarget(lastDiff))

\* C4: once miner_start_job has returned for a job and until it is called
\* again, every header core 1 hashes, and every share it submits, is of that job.
C4_NoOldJob == (hashed # "" /\ startJob.pc = "idle" /\ started # "") => hashed = started

\* C5: with a backup configured, once the primary has refused every connect
\* for twice the failover delay, the backup was attempted.
C5_BackupAttempted ==
    (s_hasBackupPool /\ outage * TICK_MS >= 2 * POOL_FAILOVER_MS) => backupTried

\* the socket of the backup is replaced by a socket of the primary
Swap == usingBackup /\ testClient = "primary" /\ client' = "primary"

\* C6: on the backup, the socket is replaced only in the step that read the
\* authorize response with result true on the probe socket, all three
\* messages sent on it, and then the probe socket is the only socket left; a
\* probe that ends otherwise leaves the socket, usingBackup and is_connected()
\* alone and closes the probe socket; a probe begins only when more than
\* PROBE_MS passed since the session began or the last probe ended, and the
\* mining loop is never entered with a probe overdue.
C6_SwitchBack ==
    /\ [][/\ Swap =>
               (/\ hs.ctx = "probe" /\ hs.stage = "auth" /\ matched' = "true"
                /\ sentLog = Handshake /\ testClient = "primary"
                /\ testClient' = "none" /\ s_isConnected' /\ ~usingBackup')
          /\ (hs.ctx = "probe" /\ hs'.ctx # "probe" /\ ~Swap) =>
               (/\ client' = client /\ usingBackup' = usingBackup
                /\ s_isConnected' = s_isConnected /\ testClient' = "none"
                /\ sinceProbe' = 0)
          /\ (hs.ctx # "probe" /\ hs'.ctx = "probe") =>
               (usingBackup /\ sinceProbe * TICK_MS > PROBE_MS)]_vars
    /\ [](pc = "rx" /\ usingBackup => sinceProbe * TICK_MS <= PROBE_MS)

C6_Witness ==
    /\ pc = "loop" /\ matched = "true" /\ hs = NoHs
    /\ client = "primary" /\ testClient = "none" /\ s_isConnected /\ ~usingBackup

\* the slots other than the first that holds id are as they were
OthersKept(id) ==
    \A i \in Slots : i # FirstMatch(s_pendingResponses, id) =>
                        s_pendingResponses'[i] = s_pendingResponses[i]

\* C8: a response whose id (not 0) is the msgId of a pending slot adds one to
\* accepted if its result is true and one to rejected otherwise, and clears
\* that one slot; a response whose id no slot holds changes no counter and no
\* slot: so each submission sent is counted at most once.
C8_CountedOnce ==
    [][rxId' > 0 =>
         IF Matching(s_pendingResponses, rxId') = {}
         THEN /\ s_stats'.accepted = s_stats.accepted
              /\ s_stats'.rejected = s_stats.rejected
              /\ s_pendingResponses' = s_pendingResponses
         ELSE /\ s_stats'.accepted = s_stats.accepted + (IF matched' = "true" THEN 1 ELSE 0)
              /\ s_stats'.rejected = s_stats.rejected + (IF matched' = "true" THEN 0 ELSE 1)
              /\ s_pendingResponses'[FirstMatch(s_pendingResponses, rxId')] = 0
              /\ OthersKept(rxId')]_vars

C8_Witness ==
    /\ rxId > 0 /\ matched = "true" /\ s_stats.accepted = 1 /\ s_stats.rejected = 1
    /\ Matching(s_pendingResponses, rxId) = {}

\* the ids of the messages sent so far that this state still shows
OutTrail == (IF lastOutId = 0 THEN << >> ELSE <<lastOutId>>) \o outIds

\* b is the next id taken after a, or one taken later with none sent between
\* (an id taken while the socket is down is not sent): larger, or past the wrap
After(a, b) ==
    \/ a < b
    \/ b < a /\ (UINT32_MAX - 1 - a) + b <= MAX_PENDING_SUBMISSIONS + 2

\* C9: no outbound message carries id 0; each id sent is larger than the one
\* sent before it, except that after the largest id, UINT32_MAX - 1, the
\* counter wraps to 1.
C9_IdsIncrease ==
    /\ \A i \in 1 .. Len(OutTrail) : OutTrail[i] \in 1 .. (UINT32_MAX - 1)
    /\ \A i \in 1 .. (Len(OutTrail) - 1) : After(OutTrail[i], OutTrail[i + 1])
    /\ \A i \in 1 .. (Len(outIds) - 1) :
          \/ outIds[i + 1] = outIds[i] + 1
          \/ outIds[i] = UINT32_MAX - 1 /\ outIds[i + 1] = 1

C9_Witness == lastOutId = UINT32_MAX - 1 /\ outIds = <<1, 2>>

\* C10: the task disconnects for inactivity only when no line of the pool was
\* received during the last INACTIVITY_MS.
C10_OnlyWhenQuiet ==
    [][(pc = "rx" /\ s_isConnected /\ ~s_isConnected') =>
          quiet * TICK_MS >= INACTIVITY_MS]_vars

\* C11: in a connected session, a pass of the mining loop that finds the last
\* mining.submit (or keepalive) more than 30 s old sends the keepalive and
\* resets the submit-idle timer.
C11_KeepaliveAfter30s ==
    [][(pc = "rx" /\ pc' = "loop" /\ s_isConnected /\ client # "none"
          /\ age.submit * TICK_MS > POOL_KEEPALIVE_MS)
       => (outIds' # << >> /\ age'.submit * TICK_MS <= TICK_MS)]_vars

\* C12: no line readBoundedLine returns holds a byte of the oversize line, and
\* once the whole stream is read the last line returned is the well-formed
\* line that followed it.
C12_OversizeDiscarded ==
    /\ \A i \in 1 .. Len(rd.out) : \A j \in 1 .. Len(rd.out[i]) : rd.out[i][j] # "L"
    /\ (rd.pc = "idle" /\ rd.wire = << >> /\ rd.buf = << >> /\ rd.out # << >>)
          => (LET last == rd.out[Len(rd.out)]
              IN  last # << >> /\ \A j \in 1 .. Len(last) : last[j] = "s")

\* C13: a step in which a set_difficulty line is handled whose parameter is
\* not a positive finite number, in the mining loop or in the handshake,
\* leaves the pool difficulty and the pool target as they were.
C13_InvalidDifficultyIgnored ==
    [][\A line \in SetDiffLines :
          (~ValidDiff(line.diff) /\ (RxLine(line, 0) \/ HsRead(line, 0, TRUE, 0)))
             => UNCHANGED <<s_poolDifficulty, s_poolTarget>>]_vars

\* C14: a step of the mining loop that handles a malformed mining.notify
\* leaves the job id (and with it the job snapshot and the block target), the
\* pool difficulty and target and the mining-active flag as they were.
C14_BadNotifyIgnored ==
    [][\A line \in BadNotifyLines :
          RxLine(line, 0) => UNCHANGED <<jobVars, s_poolDifficulty,
                                         s_poolTarget, s_miningActive>>]_vars

\* C15: a share found while the submission queue is full is dropped at once:
\* the step leaves the queue as it was and the worker in its hashing loop, and
\* the worker is never held inside stratum_submit_share, where the entry
\* could still get into the queue.
C15_FullQueueDrops ==
    [][/\ (core1 = "mine" /\ hashed' # ""
            /\ Len(s_submitQueue) = MAX_PENDING_SUBMISSIONS)
          => (s_submitQueue' = s_submitQueue /\ core1' = "mine")
       /\ core1 = "send" => Len(s_submitQueue') <= Len(s_submitQueue)]_vars

\* a <= b as 256-bit numbers, byte 31 most significant: they are equal, or
\* at the highest byte in which they differ a has the smaller one
Le256(a, b) ==
    \/ a = b
    \/ LET k == CHOOSE i \in Bytes32 :
                   a[i] # b[i] /\ \A j \in Bytes32 : j > i => a[j] = b[j]
       IN  a[k] < b[k]

\* C16: a digest handed to hashCheck that is at most the block target of the
\* job passes the pool-target check and is submitted with the block flag set.
C16_BlockSolutionSubmitted ==
    (fx.fn = "hashCheck" /\ Le256(fx.hash, fx.block))
       => (fx.share /\ "SUBMIT_FLAG_BLOCK" \in fx.flags)

\* C17: while a job of a well-formed notify is published, the block target is
\* at most the pool target.
C17_BlockBelowPool ==
    (s_miningActive /\ s_currentJobId \in JobIds) => Le256(s_blockTarget, s_poolTarget)

\* the value of a string of hex digits, modulo 2^32
RECURSIVE hexToU32(_, _)
hexToU32(str, acc) ==
    IF str = << >> THEN acc
    ELSE hexToU32(Tail(str), Shl4Or(acc, decodeHexChar(Head(str))))

\* C18: the string formatHex8 leaves for a 32-bit value has exactly 8
\* characters, each a lowercase hex digit, the most significant first: read
\* back as a hexadecimal number it is the value.
C18_Hex8RoundTrip ==
    (fx.fn = "formatHex8" /\ fx.done)
       => /\ Len(fx.ret) = 8
          /\ \A i \in 1 .. 8 : \E d \in 1 .. 16 : fx.ret[i] = hex[d]
          /\ hexToU32(fx.ret, <<0, 0>>) = fx.args[1]

C18_Witness ==
    /\ fx.fn = "formatHex8"
    /\ fx.done
    /\ fx.args[1] = <<43981, 255>>
    /\ fx.ret = <<"a", "b", "c", "d", "0", "0", "f", "f">>

\* en modulo 256^size
ModBytes(en, size) ==
    IF size <= 0 THEN <<0, 0>>
    ELSE IF size = 1 THEN <<0, en[2] % 256>>
    ELSE IF size = 2 THEN <<0, en[2]>>
    ELSE IF size = 3 THEN <<en[1] % 256, en[2]>>
    ELSE en

\* C19: for the extranonce2 size of the subscribe response and every
\* extranonce2, the string encodeExtraNonce leaves has 2 * size hex digits,
\* the most significant byte first: read back it is en2 modulo 256^size.
C19_ExtraNonceRoundTrip ==
    (fx.fn = "encodeExtraNonce" /\ fx.done)
       => /\ Len(fx.ret) = 2 * fx.args[1]
          /\ \A i \in 1 .. Len(fx.ret) : \E d \in 1 .. 16 : fx.ret[i] \in {hex[d], tbl[d]}
          /\ hexToU32(fx.ret, <<0, 0>>) = ModBytes(fx.args[2], fx.args[1])

\* C20: check_target accepts the digest exactly when it is at most the target
\* as a 256-bit number with byte 31 most significant; equal is accepted.
C20_CheckTargetOrder ==
    (fx.fn = "check_target" /\ fx.done)
       => /\ fx.ret = Le256(fx.args[1], fx.args[2])
          /\ fx.args[1] = fx.args[2] => fx.ret

C20_Witness ==
    /\ fx.fn = "check_target"
    /\ fx.done
    /\ fx.ret
    /\ fx.args[1] = fx.args[2]
    /\ fx.args[1][31] = 255
    /\ fx.args[1][0] = 1

\* C22: while no wallet is configured the stratum task has opened no TCP
\* connection, on neither socket, and has sent no message: no id was
\* drawn, no handshake begun, no session declared.
C22_NoWalletNoTraffic ==
    ~walletSet => /\ client = "none"
                  /\ testClient = "none"
                  /\ outIds = << >>
                  /\ sentLog = << >>
                  /\ s_messageId = 1
                  /\ pc = "loop"
                  /\ ~s_isConnected

\* no wallet, Wi-Fi up, and a reconnect request waiting behind the check
C22_Witness == ~walletSet /\ wifi /\ pc = "loop" /\ s_reconnectRequested

\* C23: with Wi-Fi up and a wallet, the iteration of the stratum task that
\* finds the reconnect request stops the miner, closes the socket, clears
\* s_isConnected and the request; an iteration that finds the socket closed
\* and no request makes a connect and, once connected, begins the handshake
\* with mining.subscribe on the new socket.
C23_ReconnectTearsDown ==
    [][/\ (wifi /\ walletSet /\ s_reconnectRequested /\ TaskStep)
            => /\ ~s_miningActive'
               /\ client' = "none"
               /\ ~s_isConnected'
               /\ ~s_reconnectRequested'
               /\ pc' = "loop"
       /\ (LoopReady /\ client = "none" /\ TaskStep /\ client' # "none")
            => /\ pc' = "wait"
               /\ hs'.stage = "sub"
               /\ hs'.ctx = client'
               /\ sentLog' = <<"mining.subscribe">>
               /\ ~s_isConnected']_vars

C23_Witness ==
    /\ s_reconnectRequested
    /\ wifi
    /\ walletSet
    /\ pc = "loop"
    /\ s_isConnected
    /\ s_miningActive
    /\ client = "primary"

\* C27: the occupied slots of the pending ring (msgId # 0) hold pairwise
\* distinct msgIds.
C27_RingIdsDistinct ==
    \A i, j \in Slots :
       (i # j /\ s_pendingResponses[i] # 0) => s_pendingResponses[i] # s_pendingResponses[j]

\* the msgIds of the submissions that wait for their response
PendingIds == {s_pendingResponses[i] : i \in Slots} \ {0}

\* C28: a line with "id" and "result" whose id is the msgId of no pending
\* submission (the id of a handshake or keepalive request, an id never sent,
\* null or 0) changes neither accepted nor rejected nor any ring slot.
C28_UnmatchedNoEffect ==
    [][(rxId' >= 0 /\ rxId' \notin PendingIds)
          => /\ s_stats'.accepted = s_stats.accepted
             /\ s_stats'.rejected = s_stats.rejected
             /\ s_pendingResponses' = s_pendingResponses]_vars

\* C29: a pass of the mining loop that sends one submission replaces a slot
\* holding an unmatched submission only when every slot of the ring holds
\* one.
C29_OverwriteOnlyWhenFull ==
    [][(/\ pc = "rx"
        /\ pc' = "loop"
        /\ client # "none"
        /\ Len(s_submitQueue) = 1
        /\ s_pendingResponses[s_pendingIndex] # 0
        /\ s_pendingResponses'[s_pendingIndex] # s_pendingResponses[s_pendingIndex])
          => \A j \in Slots : s_pendingResponses[j] # 0]_vars

\* C30: a worker that finds a share adds at most one entry to the submission
\* queue and writes neither the ring nor a counter of the statistics.
C30_WorkerOnlyEnqueues ==
    [][found' # found
          => /\ s_stats' = s_stats
             /\ s_pendingResponses' = s_pendingResponses
             /\ s_pendingIndex' = s_pendingIndex
             /\ \/ s_submitQueue' = s_submitQueue
                \/ \E e \in JobIds \cup {""} : s_submitQueue' = Append(s_submitQueue, e)]_vars

\* C24: whenever a job is active the workers that were created eventually
\* compute a hash, unless mining is stopped first.
C24_WorkersHash == [](s_miningActive => <>(~s_miningActive \/ hashed # ""))

\* C25: whenever miner_task_core1 works with its local copy (from the end of
\* the copy until the next copy begins), the header and the job id of the
\* copy are those one miner_start_job call wrote.
C25_CopyOfOneJob ==
    core1 \in {"mine", "send"} => (hb = jobId /\ hb \in JobIds)

\* the worker holds a copy of job A, taken while the stratum task was between
\* the two halves of building job B
C25_Witness ==
    /\ core1 = "mine"
    /\ hb = "A"
    /\ jobId = "A"
    /\ s_pendingBlock = "B"
    /\ s_currentJobId = "A"
    /\ startJob.pc = "publish"

\* the two highest-order bytes of the digest are both zero
TopTwoZero(digest) == digest[31] = 0 /\ digest[30] = 0

\* C21: a nonce is passed over without being reported as a candidate (by the
\* jump back to proc_start, or by a false return after which the worker goes
\* on mining) only if the two highest-order bytes of its digest are not both
\* zero.
C21_NoFalseNegative ==
    [][fx.fn = "sha256_pipelined_mine" =>
         /\ (fx.pc = "reject" /\ fx'.fn = fx.fn /\ fx'.pc = "start")
               => ~TopTwoZero(ll_read_digest(fx.text))
         /\ (core1 = "ret" /\ ~fx.ret /\ core1' = "mine")
               => ~TopTwoZero(ll_read_digest(fx.text))]_vars

\* C26: a submission hashCheck enqueues carries the job id and the ntime of
\* the header that was hashed and the extranonce2 its Merkle root was built
\* with.
C26_SubmissionOfOneJob ==
    fx.fn = "submit_entry"
       => /\ fx.jobId = fx.header
          /\ fx.ntime = fx.header
          /\ fx.extraNonce2 = fx.header

\* ---- nonces: a device that is online; the nonces the worker hashes after a
\* job was started, on either path
NonceNext ==
    \/ \E path \in {"pipelined", "sequential"}, r \in Randoms : StartLane(path, r)
    \/ HashNonce

NonceSpec == InitOnline /\ [][NonceNext]_vars

\* ---- yields: the same device, the hashes between two yields of the worker
YieldNext ==
    \/ \E path \in {"pipelined", "sequential"}, r \in Randoms : StartRun(path, r)
    \/ \E k \in Bursts : PipelinedMine(k)
    \/ PipelinedYield
    \/ SequentialMine

YieldSpec == InitOnline /\ [][YieldNext]_vars

\* ---- the pool target under a worker's eyes: a session, a job, then a
\* set_difficulty stored byte by byte while a worker checks a digest
RaceNext ==
    \/ NotWriting /\ LoopConnectOk(0)
    \/ NotWriting /\ HsRead(GoodReply, 0, TRUE, 0)
    \/ \E line \in NotifyLines : NotWriting /\ fx = NoCall /\ RxLine(line, 0)
    \/ \E d \in Diffs : SetDifficultyBegin(d)
    \/ TargetWrite
    \/ \E digest \in Digests : CheckBegin(digest)
    \/ CheckRead

RaceSpec == InitOnline /\ [][RaceNext]_vars

\* ------------------------------------------------------------------- C31
\* the line carries the id waited for
IsExpected(line) == line.kind = "response" /\ line.id = hs.expectedId

\* subscribe() went on after the wait: authorize was sent, or the session was
\* established, or the probe swapped the sockets
WaitReturnedTrue ==
    \/ hs.stage = "sub" /\ hs' # NoHs /\ hs'.stage = "auth"
    \/ hs.ctx # "probe" /\ s_isConnected'
    \/ hs.ctx = "probe" /\ ~usingBackup' /\ usingBackup

\* the wait is over and the socket that was waited on is closed
WaitGaveUp ==
    /\ hs' = NoHs
    /\ ~WaitReturnedTrue
    /\ IF hs.ctx = "probe"
       THEN testClient' = "none" /\ client' = client /\ pc' = "rx"
       ELSE client' = "none" /\ pc' = "loop"

\* HsLines, written as a union
WaitLines ==
    {EmptyLine} \cup OtherLines \cup {l \in NotifyLines \cup SetDiffLines : Plain(l)}
        \cup {Ln("response", i, r, "-", NoParam) : i \in {hs.expectedId, UINT32_MAX}, r \in Results}

\* C31: waitForResponseById always terminates: it returns true only on a line
\* whose id equals the expected id; it returns false as soon as a read yields
\* no line and after the 10th line without a match; a line with a different
\* id (or a method call, or one that does not parse) is skipped, the wait
\* going on with one attempt fewer.
C31_WaitTerminates ==
    [][(pc = "wait" /\ hs' # hs) => \A line \in WaitLines :
          \/ /\ hs.attempt < maxAttempts
             /\ WaitReturnedTrue => IsExpected(line)
             /\ line.kind = "empty" => WaitGaveUp
             /\ (line.kind # "empty" /\ ~IsExpected(line)) =>
                   IF hs.attempt + 1 < maxAttempts
                   THEN hs' = [hs EXCEPT !.attempt = hs.attempt + 1] /\ pc' = "wait"
                        /\ client' = client /\ testClient' = testClient
                   ELSE WaitGaveUp
          \/ \A alive \in BOOLEAN : ~HsRead(line, 0, alive, 0)]_vars

\* nine lines were skipped in the wait for the authorize response
C31_Witness ==
    pc = "wait" /\ hs.stage = "auth" /\ hs.attempt = maxAttempts - 1 /\ matched = ""

\* ------------------------------------------------------------------- C32
\* the bytes coinbase1, extranonce1, extranonce2 and coinbase2 decode to
DecodedLen(args) == args[2] \div 2 + args[3] \div 2 + args[4] + args[5] \div 2

\* C32: when coinbase1, extranonce1, extranonce2 and coinbase2 together
\* decode to more than 512 bytes the job builder rejects the notify: no byte
\* is written past coinbase[] and no job is published.
C32_LongCoinbaseRejected ==
    (fx.fn = "miner_start_job" /\ fx.done /\ DecodedLen(fx.args) > COINBASE_SIZE)
        => (fx.ret.top <= COINBASE_SIZE /\ s_currentJobId = "" /\ ~s_miningActive)

\* ------------------------------------------------------------------- C33
\* lane 0 is [0, 0x80000000), lane 1 is [0x80000000, 0xFFFFFFFF]
InLane(minerId, nonce) == IF minerId = 0 THEN nonce[1] < 32768 ELSE nonce[1] >= 32768

\* the nonce after "nonce" in the lane: one more, back to the lane's first
\* nonce after its last
NextInLane(minerId, nonce) ==
    IF InLane(minerId, Inc32(nonce)) THEN Inc32(nonce)
    ELSE IF minerId = 0 THEN <<0, 0>> ELSE <<32768, 0>>

\* C33: each worker only ever hashes nonces inside its assigned half of the
\* 32-bit space: the first nonce lies in its half, every further nonce is the
\* one before plus one in header nonce order, and after the last nonce of the
\* half comes the first of the same half.
C33_NoncesInLane ==
    (fx.fn = "nonces" /\ fx.n > 0) =>
        /\ InLane(fx.minerId, fx.nonce)
        /\ fx.n > 1 => fx.nonce = NextInLane(fx.minerId, fx.before)

\* ------------------------------------------------------------------- C34
\* C34: while mining is active a worker never computes more than about 2^18
\* consecutive hashes without yielding to the scheduler, on the pipelined
\* path and on the sequential path ("about": up to twice 2^18 is let pass).
C34_YieldsEvery256K ==
    fx.fn = "run" => fx.sinceYield <= 2 * YIELD_EVERY

\* ------------------------------------------------------------------- C35
\* C35: best_difficulty is a high-watermark over the candidates that met the
\* pool target: after any sequence of checked candidates it equals the
\* largest finite share difficulty among those candidates, 0 if there is none.
C35_BestOfShares ==
    fx.fn = "hashCheck" => fx.best = fx.ofShares

\* ------------------------------------------------------------------- C36
\* C36: a probe of the primary pool that does not end in a swap leaves the
\* backup session's state unchanged: whenever the task is back in the mining
\* loop of the backup session, the extranonce1 the miner builds jobs with is
\* the one the backup pool gave in its subscribe response.
C36_ProbeKeepsBackupSession ==
    (pc = "rx" /\ usingBackup /\ s_isConnected) => s_extraNonce1 = "backup"

\* ------------------------------------------------------------------- C37
\* the pool the established session is with
SessionPool == IF usingBackup THEN "backup" ELSE "primary"

\* C37: the username of every mining.submit equals the username sent in the
\* mining.authorize of the session on which the submit is transmitted,
\* worker-name suffix included, whatever worker name is configured.
C37_SubmitAsAuthorized ==
    [][(pc = "rx" /\ client # "none" /\ s_submitQueue # << >> /\ pc' = "loop") =>
          \A workerName \in WorkerNames :
             SubmitUsername(workerName) = AuthorizeUsername(SessionPool, workerName)]_vars

\* ------------------------------------------------------------------- C38
\* C38: whenever is_connected() is false the miner is not active: every step
\* of the stratum task that clears the connected flag stops the miner, and a
\* job is started (miner_start_job) only while the connected flag is true.
C38_DisconnectedIsIdle ==
    [][/\ ~s_isConnected => ~s_miningActive
       /\ ~s_isConnected' => ~s_miningActive'
       /\ (s_isConnected /\ ~s_isConnected') => ~s_miningActive'
       /\ (jobVars' # jobVars \/ (s_miningActive' /\ ~s_miningActive))
             => (s_isConnected /\ s_isConnected')]_vars

\* the session was lost after a job had been started
C38_Witness ==
    ~s_isConnected /\ s_currentJobId # "" /\ ~s_miningActive /\ client = "none"

\* ------------------------------------------------------------------- C39
\* the target bytes read so far are those of the target t
SeenOf(t) == \A k \in 1 .. Len(fx.seen) : fx.seen[k] = t[32 - k]

\* C39: a worker's pool-target comparison never observes a partially updated
\* target: for every interleaving of miner_set_difficulty with a worker's
\* check, the target bytes the worker compares against are those of one
\* complete target, the old one or the new one.
C39_TargetNotTorn ==
    (fx # NoCall /\ fx.fn = "check_target") => (SeenOf(fx.old) \/ SeenOf(fx.new))

\* ------------------------------------------------------------------- C40
\* the 32 low bytes, least significant first, of mantissa * 256^(exponent - 3)
\* (of mantissa / 256^(3 - exponent), rounded down, below exponent 3)
Expansion(exponent, mantissa) ==
    IF exponent < 3
    THEN [i \in Bytes32 |-> IF i < 3 THEN ByteOf(mantissa \div (256 ^ (3 - exponent)), i) ELSE 0]
    ELSE [i \in Bytes32 |->
            IF i - (exponent - 3) \in 0 .. 2 THEN ByteOf(mantissa, i - (exponent - 3)) ELSE 0]

\* C40: bits_to_target writes only inside the 32-byte target array for every
\* 32-bit nbits value (every exponent byte 0..255), and the bytes it leaves
\* are the little-endian expansion of mantissa * 256^(exponent - 3).
C40_BitsToTargetInBounds ==
    (fx.fn = "bits_to_target" /\ fx.done) =>
        /\ fx.ret.top <= 32
        /\ ~fx.ret.smashed
        /\ fx.ret.target = Expansion(fx.args[1], fx.args[2])

====
